---- MODULE Spec2Model ----
(***************************************************************************)
(* Face-Detection-Recognition: the FaceTracker of src/src/main.py          *)
(* (association of per-frame detections with tracks, per-track name votes, *)
(* aging and eviction), with the arithmetic it relies on.                  *)
(***************************************************************************)
EXTENDS Integers, Sequences, FiniteSets, TLC

(***************************************************************************)
(* Program constants.                                                      *)
(***************************************************************************)
max_age == 10
history_size == 5
\* iou_threshold = 0.5, kept as the exact ratio 1/2
iou_threshold_num == 1
iou_threshold_den == 2

(***************************************************************************)
(* Bounds of the model.                                                    *)
(***************************************************************************)
\* ids the counter next_id may hand out before the model stops creating tracks
MaxId == 3
\* calls of update in a run of the association specification
MaxCalls == 3

(***************************************************************************)
(* IEEE-754 binary64 values, as far as np.mean needs them: zero and the    *)
(* positive normal numbers.  A number is <<e, hi, lo>> and stands for      *)
(* (hi * 2^27 + lo) * 2^e, with a 53-bit significand                       *)
(* 2^52 <= hi * 2^27 + lo < 2^53 (so 2^25 <= hi < 2^26, 0 <= lo < 2^27);   *)
(* zero is <<0, 0, 0>>.  Sums and quotients round to nearest, ties to even.*)
(***************************************************************************)
Limb == 2^27
HiMin == 2^25
HiMax == 2^26
FZero == <<0, 0, 0>>

FIsZero(a) == a[2] = 0 /\ a[3] = 0

\* a < b, for numbers that are zero or positive
FLess(a, b) ==
    IF FIsZero(b) THEN FALSE
    ELSE IF FIsZero(a) THEN TRUE
    ELSE \/ a[1] < b[1]
         \/ a[1] = b[1] /\ a[2] < b[2]
         \/ a[1] = b[1] /\ a[2] = b[2] /\ a[3] < b[3]

\* the two-limb natural <<hi, lo>> shifted right by d bits; the bits shifted
\* out are remembered in st (sticky)
RECURSIVE ShiftRightSticky(_, _, _)
ShiftRightSticky(x, d, st) ==
    IF d = 0 \/ (x[1] = 0 /\ x[2] = 0) THEN <<x[1], x[2], st>>
    ELSE ShiftRightSticky(<<x[1] \div 2, (x[1] % 2) * (Limb \div 2) + x[2] \div 2>>,
                          d - 1,
                          IF x[2] % 2 = 1 THEN 1 ELSE st)

\* the significand q = <<hi, lo>> (below 2^53) with exponent e, plus one when
\* up, renormalised when the increment reaches 2^53
FRoundUp(e, q, up) ==
    LET lo1 == IF up THEN q[2] + 1 ELSE q[2]
        hi1 == q[1] + lo1 \div Limb
        lo2 == lo1 % Limb
    IN  IF hi1 = HiMax THEN <<e + 1, HiMin, 0>> ELSE <<e, hi1, lo2>>

\* a + b in binary64: both significands get three extra low bits (guard,
\* round, sticky), the smaller operand is aligned, and the exact sum of the
\* two is rounded back to 53 bits
FAdd(a, b) ==
    IF FIsZero(a) THEN b
    ELSE IF FIsZero(b) THEN a
    ELSE
      LET big   == IF FLess(a, b) THEN b ELSE a
          small == IF FLess(a, b) THEN a ELSE b
          d     == big[1] - small[1]
          A     == <<big[2] * 8 + (big[3] * 8) \div Limb, (big[3] * 8) % Limb>>
          B0    == <<small[2] * 8 + (small[3] * 8) \div Limb, (small[3] * 8) % Limb>>
          Bs    == ShiftRightSticky(B0, d, 0)
          Blo   == IF Bs[3] = 1 /\ Bs[2] % 2 = 0 THEN Bs[2] + 1 ELSE Bs[2]
          Slo   == A[2] + Blo
          S     == <<A[1] + Bs[1] + Slo \div Limb, Slo % Limb>>
          k     == IF S[1] >= HiMax * 8 THEN 4 ELSE 3
          p     == 2^k
          r     == S[2] % p
          q     == <<S[1] \div p, (S[1] % p) * (Limb \div p) + S[2] \div p>>
          up    == r > p \div 2 \/ (r = p \div 2 /\ q[2] % 2 = 1)
      IN  FRoundUp(big[1] - 3 + k, q, up)

\* the least s with floor(m * 2^s / n) >= 2^52, for the significand m = <<hi, lo>>
RECURSIVE QuotShift(_, _, _)
QuotShift(hi, n, s) ==
    IF (hi * 2^s) \div n >= HiMin THEN s ELSE QuotShift(hi, n, s + 1)

\* a / n in binary64 for an integer count 1 <= n < 8
FDivInt(a, n) ==
    IF FIsZero(a) THEN FZero
    ELSE
      LET s   == QuotShift(a[2], n, 0)
          M   == <<a[2] * 2^s + (a[3] * 2^s) \div Limb, (a[3] * 2^s) % Limb>>
          qh  == M[1] \div n
          t   == (M[1] % n) * Limb + M[2]
          ql  == t \div n
          R   == t % n
          up  == 2 * R > n \/ (2 * R = n /\ ql % 2 = 1)
      IN  FRoundUp(a[1] - s, <<qh, ql>>, up)

\* left-to-right sum of a sequence of numbers, starting from 0.0
RECURSIVE FSum(_)
FSum(q) == IF q = <<>> THEN FZero ELSE FAdd(FSum(SubSeq(q, 1, Len(q) - 1)), q[Len(q)])

\* the sum divided by the capacity of the queue instead of its length
MeanOverCapacity(q) == FDivInt(FSum(q), history_size)

\* np.mean of a non-empty vote queue
Mean(q) == FDivInt(FSum(q), Len(q))


(***************************************************************************)
(* _calculate_iou.  Boxes are <<x, y, w, h>> with integer coordinates; the *)
(* quotient intersection / union is kept as the exact ratio               *)
(* <<intersection, union>>, and 0.0 as <<0, 1>>.  Python divides two ints  *)
(* with correct rounding, so for pixel-sized boxes comparing the ratios    *)
(* exactly is comparing the floats.                                        *)
(***************************************************************************)
Max2(a, b) == IF a >= b THEN a ELSE b
Min2(a, b) == IF a <= b THEN a ELSE b

\* the union taken as the sum of the two areas, the intersection not removed
CalculateIouAreaSum(bbox1, bbox2) ==
    LET x_left   == Max2(bbox1[1], bbox2[1])
        y_top    == Max2(bbox1[2], bbox2[2])
        x_right  == Min2(bbox1[1] + bbox1[3], bbox2[1] + bbox2[3])
        y_bottom == Min2(bbox1[2] + bbox1[4], bbox2[2] + bbox2[4])
        intersection == (x_right - x_left) * (y_bottom - y_top)
        union    == bbox1[3] * bbox1[4] + bbox2[3] * bbox2[4]
    IN  IF x_right < x_left \/ y_bottom < y_top THEN <<0, 1>>
        ELSE IF union > 0 THEN <<intersection, union>>
        ELSE <<0, 1>>

CalculateIou(bbox1, bbox2) ==
    LET x_left   == Max2(bbox1[1], bbox2[1])
        y_top    == Max2(bbox1[2], bbox2[2])
        x_right  == Min2(bbox1[1] + bbox1[3], bbox2[1] + bbox2[3])
        y_bottom == Min2(bbox1[2] + bbox1[4], bbox2[2] + bbox2[4])
        intersection == (x_right - x_left) * (y_bottom - y_top)
        union    == bbox1[3] * bbox1[4] + bbox2[3] * bbox2[4] - intersection
    IN  IF x_right < x_left \/ y_bottom < y_top THEN <<0, 1>>
        ELSE IF union > 0 THEN <<intersection, union>>
        ELSE <<0, 1>>

\* r > s for two ratios with positive denominators
RatioGreater(r, s) == r[1] * s[2] > s[1] * r[2]

\* iou > self.iou_threshold
OverThreshold(iou) == RatioGreater(iou, <<iou_threshold_num, iou_threshold_den>>)

(***************************************************************************)
(* The tracker's state.  tracks maps a track id to                         *)
(* [bbox, age, name_votes]; name_votes is the dict name -> deque kept as   *)
(* the sequence of its items [name, votes] in insertion order.             *)
(* dets, results, assoc and fresh record the last call of update: its      *)
(* argument, its return value, and for each detection the track it was     *)
(* associated with and whether that track was created for it.  issued is   *)
(* the set of ids handed out so far, misses counts for each of them the    *)
(* update calls in a row that associated no detection with it (since its   *)
(* creation or last match, counted up to max_age + 1), and steady follows  *)
(* whether every frame so far was the same single detection; overflow says *)
(* whether the last call pushed a vote on a queue that was full; calls     *)
(* counts                                                                  *)
(* the calls of update where a specification bounds them.  twin is a       *)
(* second FaceTracker object, with its tracks, its next_id, the value its  *)
(* last update returned and whether the tracker's last frame is still to   *)
(* be passed to it, for the specification that feeds two trackers the same *)
(* frames.                                                                 *)
(* iouA, iouB and iouOut are the arguments and results of direct calls of  *)
(* _calculate_iou.                                                         *)
(***************************************************************************)
VARIABLES tracks, next_id, dets, results, assoc, fresh, issued, misses, steady,
          overflow, calls, twin, iouA, iouB, iouOut

(***************************************************************************)
(* The gallery store and the matcher.  database is the in-memory dict of   *)
(* the FaceDatabase object, kept as the sequence of its items              *)
(* [name, encodings, metadata] in insertion order, and constructed says    *)
(* whether the object exists yet and whether its load printed the warning. *)
(* file is the gallery file at db_path, sidecar the JSON metadata file     *)
(* beside it, backups the files of the backups directory and now the       *)
(* clock, and backup_enabled is database.backup_enabled of the             *)
(* configuration.  save is the position of the running save_database call, *)
(* with the failures of its writes, the gallery file as it was before the  *)
(* call that runs or that failed, and the number of failures so far.       *)
(* observed is what a load of the gallery file by another process saw,     *)
(* with the file's content before and after the save it ran beside.        *)
(* tolerance is the matcher's threshold.  ret is the last call of the      *)
(* store or of the matcher with what it returned, and removed holds the    *)
(* names that remove_person deleted and add_person has not brought back.   *)
(***************************************************************************)
VARIABLES database, constructed, file, sidecar, backups, now, save, ret,
          observed, removed, backup_enabled, tolerance, registration

storeVars == <<database, constructed, file, sidecar, backups, now, save, ret,
               observed, removed, backup_enabled>>

matcherVars == <<tolerance>>

trackerVars == <<tracks, next_id, dets, results, assoc, fresh, issued, misses,
                 steady, overflow, calls, twin>>

vars == <<tracks, next_id, dets, results, assoc, fresh, issued, misses, steady,
          overflow, calls, twin, iouA, iouB, iouOut,
          database, constructed, file, sidecar, backups, now, save, ret,
          observed, removed, backup_enabled, tolerance, registration>>

regVars == <<registration>>

\* scripts/register_face.py:14-26  a FaceRegistration no method of which has
\* been called: no name, nothing collected, nothing returned
NoRegistration ==
    [pc |-> "idle", op |-> "none", name |-> "", encodings |-> <<>>,
     passed |-> <<>>, seen |-> 0, value |-> FALSE,
     before |-> [database |-> <<>>,
                 file |-> [exists |-> FALSE, readable |-> TRUE, bytes |-> <<>>]]]

NoTrack == -1

\* the ids of a track table in the order a dict iterates them: insertion
\* order, which is ascending id since ids are handed out in increasing order
RECURSIVE SortedIds(_)
SortedIds(S) ==
    IF S = {} THEN <<>>
    ELSE LET m == CHOOSE x \in S : \A y \in S : x <= y
         IN  <<m>> \o SortedIds(S \ {m})

\* eviction one frame early, and one frame late
EvictedEarly(age) == age >= max_age
EvictedLate(age) == age > max_age + 1

\* main.py:47  the test that evicts a track, on its incremented age
Evicted(age) == age > max_age

\* every track ages and none is deleted
AgeTracksKeepAll(trk) ==
    [id \in DOMAIN trk |-> [trk[id] EXCEPT !.age = @ + 1]]

\* main.py:45-48  age every track, delete those past max_age
AgeTracks(trk) ==
    [id \in {i \in DOMAIN trk : ~Evicted(trk[i].age + 1)} |->
        [trk[id] EXCEPT !.age = @ + 1]]

\* the threshold test with >= for >
BetterFromThreshold(iou, best_iou) ==
    /\ RatioGreater(iou, best_iou)
    /\ ~RatioGreater(<<iou_threshold_num, iou_threshold_den>>, iou)

\* main.py:62  whether a track's iou replaces the best one so far
Better(iou, best_iou) == RatioGreater(iou, best_iou) /\ OverThreshold(iou)

\* main.py:54-64  the scan for the best unclaimed track; ids is what is left
\* of the iteration, best the pair <<best_iou, best_track_id>>
RECURSIVE ScanTracks(_, _, _, _, _)
ScanTracks(trk, matched, bbox, ids, best) ==
    IF ids = <<>> THEN best[2]
    ELSE LET track_id == Head(ids)
             iou == CalculateIou(bbox, trk[track_id].bbox)
         IN  IF track_id \in matched
                THEN ScanTracks(trk, matched, bbox, Tail(ids), best)
             ELSE IF Better(iou, best[1])
                THEN ScanTracks(trk, matched, bbox, Tail(ids), <<iou, track_id>>)
             ELSE ScanTracks(trk, matched, bbox, Tail(ids), best)

\* a sequence in the order last to first
RECURSIVE Reversed(_)
Reversed(q) == IF q = <<>> THEN <<>> ELSE Append(Reversed(Tail(q)), Head(q))

\* the scan runs over the tracks from the highest id to the lowest
BestTrackDescending(trk, matched, bbox) ==
    ScanTracks(trk, matched, bbox, Reversed(SortedIds(DOMAIN trk)),
               <<(<<0, 1>>), NoTrack>>)

BestTrack(trk, matched, bbox) ==
    ScanTracks(trk, matched, bbox, SortedIds(DOMAIN trk), <<(<<0, 1>>), NoTrack>>)

\* a full queue that refuses the new vote instead of dropping its oldest
DequeKeepOldest(q, c) ==
    IF Len(q) >= history_size THEN q ELSE Append(q, c)

\* deque(maxlen=history_size).append
DequeAppend(q, c) ==
    IF Len(q) >= history_size THEN Append(Tail(q), c) ELSE Append(q, c)

\* main.py:72 and 93  "name and is_known": the detection casts a vote
CastsVote(det) == det.name # "" /\ det.is_known

\* name_votes[name], and the empty queue when the name has none
VotesFor(name_votes, name) ==
    IF \E i \in DOMAIN name_votes : name_votes[i].name = name
       THEN name_votes[CHOOSE i \in DOMAIN name_votes : name_votes[i].name = name].votes
       ELSE <<>>

\* a vote for one name also drops the oldest vote of every other name that
\* has more than one
PushVoteExpiring(name_votes, name, confidence) ==
    IF \E i \in DOMAIN name_votes : name_votes[i].name = name
       THEN [i \in DOMAIN name_votes |->
                IF name_votes[i].name = name
                   THEN [name_votes[i] EXCEPT !.votes = DequeAppend(@, confidence)]
                   ELSE [name_votes[i] EXCEPT !.votes =
                            IF Len(@) > 1 THEN Tail(@) ELSE @]]
       ELSE Append(name_votes, [name |-> name, votes |-> <<confidence>>])

\* main.py:73-75  push the confidence on the name's queue, created if absent
PushVote(name_votes, name, confidence) ==
    IF \E i \in DOMAIN name_votes : name_votes[i].name = name
       THEN [i \in DOMAIN name_votes |->
                IF name_votes[i].name = name
                   THEN [name_votes[i] EXCEPT !.votes = DequeAppend(@, confidence)]
                   ELSE name_votes[i]]
       ELSE Append(name_votes, [name |-> name, votes |-> <<confidence>>])

\* the key with its components swapped: (np.mean(x[1]), len(x[1]))
KeyGreaterMeanFirst(x, y) ==
    \/ FLess(Mean(y.votes), Mean(x.votes))
    \/ Mean(y.votes) = Mean(x.votes) /\ Len(x.votes) > Len(y.votes)

\* main.py:79  key(x) > key(y) for the key (len(x[1]), np.mean(x[1]))
KeyGreater(x, y) ==
    \/ Len(x.votes) > Len(y.votes)
    \/ Len(x.votes) = Len(y.votes) /\ FLess(Mean(y.votes), Mean(x.votes))

\* main.py:78-79  max(items, key): the first item no later item's key exceeds
RECURSIVE MaxItem(_, _)
MaxItem(items, best) ==
    IF items = <<>> THEN best
    ELSE IF KeyGreater(Head(items), best) THEN MaxItem(Tail(items), Head(items))
    ELSE MaxItem(Tail(items), best)

BestName(name_votes) == MaxItem(Tail(name_votes), Head(name_votes))

\* a voted name counts as known only from its second vote
MatchedResultSecondVote(bbox, name_votes, confidence) ==
    LET stable_name == IF name_votes # <<>> THEN BestName(name_votes).name ELSE "Unknown"
        stable_confidence == IF name_votes # <<>> THEN Mean(BestName(name_votes).votes)
                             ELSE confidence
    IN  [bbox |-> bbox, name |-> stable_name, confidence |-> stable_confidence,
         is_known |-> name_votes # <<>> /\ Len(BestName(name_votes).votes) > 1]

\* main.py:86  the tuple emitted for a matched track
MatchedResult(bbox, name_votes, confidence) ==
    LET stable_name == IF name_votes # <<>> THEN BestName(name_votes).name ELSE "Unknown"
        stable_confidence == IF name_votes # <<>> THEN Mean(BestName(name_votes).votes)
                             ELSE confidence
    IN  [bbox |-> bbox, name |-> stable_name, confidence |-> stable_confidence,
         is_known |-> stable_name # "Unknown"]

\* main.py:98  the tuple emitted for a track created this frame
CreatedResult(det) ==
    [bbox |-> det.bbox, name |-> det.name, confidence |-> det.confidence,
     is_known |-> det.is_known]

\* main.py:93  name_votes of a new track
SeedVotes(det) ==
    IF CastsVote(det) THEN <<[name |-> det.name, votes |-> <<det.confidence>>]>>
    ELSE <<>>

\* a counter that is not advanced
NextIdStuck(n) == n

\* main.py:89  the counter after handing out an id
NextIdAfter(n) == n + 1

\* the matched track is not recorded as claimed
ClaimForgotten(matched, track_id) == matched

\* main.py:70  matched_tracks after a detection was associated with a track
ClaimMatched(matched, track_id) == matched \cup {track_id}

\* main.py:53-98  one iteration of the loop over the detections; st carries
\* the tracker's fields and the loop's locals
ProcessDetection(st, det) ==
    LET best_track_id == BestTrack(st.tracks, st.matched, det.bbox)
    IN  IF best_track_id # NoTrack
        THEN LET track == st.tracks[best_track_id]
                 votes == IF CastsVote(det)
                             THEN PushVote(track.name_votes, det.name, det.confidence)
                             ELSE track.name_votes
                 track1 == [bbox |-> det.bbox, age |-> 0, name_votes |-> votes]
             IN  [st EXCEPT
                    !.tracks  = [@ EXCEPT ![best_track_id] = track1],
                    !.matched = ClaimMatched(@, best_track_id),
                    !.results = Append(@, MatchedResult(det.bbox, votes, det.confidence)),
                    !.assoc   = Append(@, best_track_id),
                    !.fresh   = Append(@, FALSE)]
        ELSE LET track_id == st.next_id
                 track1 == [bbox |-> det.bbox, age |-> 0, name_votes |-> SeedVotes(det)]
             IN  [st EXCEPT
                    !.next_id = NextIdAfter(@),
                    !.tracks  = [id \in DOMAIN @ \cup {track_id} |->
                                    IF id = track_id THEN track1 ELSE @[id]],
                    !.matched = @ \cup {track_id},
                    !.results = Append(@, CreatedResult(det)),
                    !.assoc   = Append(@, track_id),
                    !.fresh   = Append(@, TRUE)]

RECURSIVE ProcessAll(_, _)
ProcessAll(st, detections) ==
    IF detections = <<>> THEN st
    ELSE ProcessAll(ProcessDetection(st, Head(detections)), Tail(detections))

\* the loop runs over the detections from the last to the first
RunUpdateReversed(trk, nid, detections) ==
    ProcessAll([tracks |-> AgeTracks(trk), next_id |-> nid, matched |-> {},
                results |-> <<>>, assoc |-> <<>>, fresh |-> <<>>],
               Reversed(detections))

\* main.py:43-100  update(detections) on the tracker (trk, nid)
RunUpdate(trk, nid, detections) ==
    ProcessAll([tracks |-> AgeTracks(trk), next_id |-> nid, matched |-> {},
                results |-> <<>>, assoc |-> <<>>, fresh |-> <<>>],
               detections)


(***************************************************************************)
(* The inputs.                                                             *)
(***************************************************************************)
\* binary64 0.95 (0x1.e666666666666p-1) and 0.75 (0x1.8p-1)
Conf095 == <<-53, 63753420, 107374182>>
Conf075 == <<-53, 50331648, 0>>

\* BoxB overlaps BoxA with IoU 12/20, BoxH overlaps BoxA with IoU 8/16 = 0.5
\* exactly and BoxB with IoU 6/18
BoxA == <<0, 0, 4, 4>>
BoxB == <<1, 0, 4, 4>>
BoxH == <<0, 0, 4, 2>>
\* the box of the spec's scenario
BoxS == <<10, 10, 50, 50>>

Detection(bbox, name, confidence, is_known) ==
    [bbox |-> bbox, name |-> name, confidence |-> confidence, is_known |-> is_known]

\* what process_video passes (main.py:201-205): "Unknown" with is_known False,
\* or the name the matcher returned with is_known True
Unrecognised(bbox) == Detection(bbox, "Unknown", Conf075, FALSE)
Recognised(bbox, name) == Detection(bbox, name, Conf095, TRUE)

\* the frames of at most two detections over a set of detections
FramesOver(D) == {<<>>} \cup {<<d>> : d \in D} \cup {<<d, e>> : d \in D, e \in D}

\* aging: unrecognised faces at two boxes that do not match each other
AgingFrames == FramesOver({Unrecognised(b) : b \in {BoxA, BoxH}})

\* liveness: no face, or one unrecognised face at one of two boxes that do
\* not match each other
FairFrames == {<<>>, <<Unrecognised(BoxA)>>, <<Unrecognised(BoxH)>>}

\* association: recognised and unrecognised faces; the gallery may hold a
\* person registered under the name "Unknown"
AssocDets == {Recognised(BoxA, "Alice"), Unrecognised(BoxA), Unrecognised(BoxB),
              Unrecognised(BoxH), Recognised(BoxB, "Unknown")}
AssocFrames == FramesOver(AssocDets)

\* votes: one box, two names, two confidences, and the tuples that must not
\* vote (an empty name, is_known False)
VoteLabels == {<<"Alice", Conf095, TRUE>>, <<"Alice", Conf075, TRUE>>,
               <<"Bob", Conf095, TRUE>>, <<"Unknown", Conf075, FALSE>>,
               <<"", Conf095, TRUE>>, <<"Alice", Conf095, FALSE>>}
VoteDets == {Detection(BoxS, l[1], l[2], l[3]) : l \in VoteLabels}
VoteFrames == {<<>>} \cup {<<d>> : d \in VoteDets}

\* the boxes _calculate_iou is called on directly
MaxCoord == 1
MaxSide == 2
IouBoxes == {<<x, y, w, h>> : x \in 0..MaxCoord, y \in 0..MaxCoord,
                              w \in 0..MaxSide, h \in 0..MaxSide}

(***************************************************************************)
(* Initial state and actions.                                              *)
(***************************************************************************)
NoDetection == Detection(<<0, 0, 0, 0>>, "", FZero, FALSE)

\* main.py:19-24  FaceTracker.__init__
TrackerInit ==
    /\ tracks = <<>>
    /\ next_id = 0
    /\ dets = <<>>
    /\ results = <<>>
    /\ assoc = <<>>
    /\ fresh = <<>>
    /\ issued = {}
    /\ misses = <<>>
    /\ steady = [phase |-> "none", det |-> NoDetection]
    /\ overflow = FALSE
    /\ calls = 0
    /\ twin = [tracks |-> <<>>, next_id |-> 0, results |-> <<>>, pending |-> FALSE]

\* no gallery file, no FaceDatabase object, no call of the store so far
NoFile == [exists |-> FALSE, readable |-> TRUE, bytes |-> <<>>]

NoCall == [op |-> "none"]

SaveIdle == [pc |-> "idle", op |-> "none", failed |-> {}, before |-> NoFile,
             faults |-> 0]

StoreIdle ==
    /\ database = <<>>
    /\ constructed = "no"
    /\ file = NoFile
    /\ sidecar = NoFile
    /\ backups = <<>>
    /\ now = 0
    /\ save = SaveIdle
    /\ ret = NoCall
    /\ observed = <<>>
    /\ removed = {}
    /\ registration = NoRegistration
    /\ backup_enabled = TRUE

MatcherIdle == tolerance = <<0, 1>>

IouIdle ==
    /\ iouA = <<0, 0, 0, 0>>
    /\ iouB = <<0, 0, 0, 0>>
    /\ iouOut = <<>>

Init == TrackerInit /\ IouIdle /\ StoreIdle /\ MatcherIdle

Range(f) == {f[i] : i \in DOMAIN f}

MissCap == max_age + 1

\* main.py:43-100  FaceTracker.update(detections) on the tracker
Returned(r, detections) ==
    LET created == {r.assoc[i] : i \in {j \in DOMAIN r.assoc : r.fresh[j]}}
    IN  /\ r.next_id <= MaxId
        /\ tracks' = r.tracks
        /\ next_id' = r.next_id
        /\ dets' = detections
        /\ results' = r.results
        /\ assoc' = r.assoc
        /\ fresh' = r.fresh
        /\ issued' = issued \cup created
        /\ misses' = [id \in issued \cup created |->
                        IF id \in Range(r.assoc) THEN 0
                        ELSE IF misses[id] >= MissCap THEN MissCap
                        ELSE misses[id] + 1]
        /\ steady' = IF Len(detections) = 1 /\ steady.phase = "none"
                        THEN [phase |-> "first", det |-> detections[1]]
                     ELSE IF /\ Len(detections) = 1
                             /\ steady.phase \in {"first", "repeat"}
                             /\ steady.det = detections[1]
                        THEN [phase |-> "repeat", det |-> detections[1]]
                     ELSE [phase |-> "mixed", det |-> NoDetection]
        /\ overflow' = \E i \in DOMAIN detections :
                           /\ ~r.fresh[i]
                           /\ CastsVote(detections[i])
                           /\ Len(VotesFor(tracks[r.assoc[i]].name_votes,
                                           detections[i].name)) = history_size
        /\ UNCHANGED <<iouA, iouB, iouOut>>
        /\ UNCHANGED <<storeVars, matcherVars, regVars>>

\* main.py:43-100  FaceTracker.update(detections) on the tracker
UpdateTracker(detections) ==
    \E r \in {RunUpdate(tracks, next_id, detections)} : Returned(r, detections)

\* main.py:43-100  FaceTracker.update(detections), the second tracker idle
Update(detections) == UpdateTracker(detections) /\ UNCHANGED twin

\* main.py:43-100  FaceTracker.update on one of two trackers: on the
\* tracker, with a new list, the same call on the second tracker then
\* pending; or on the second tracker, with the list the tracker was called
\* with
UpdateOneOfTwo(second, detections) ==
    /\ twin.pending = second
    /\ \E r \in {RunUpdate(IF second THEN twin.tracks ELSE tracks,
                            IF second THEN twin.next_id ELSE next_id,
                            IF second THEN dets ELSE detections)} :
          IF second
             THEN /\ twin' = [tracks |-> r.tracks, next_id |-> r.next_id,
                              results |-> r.results, pending |-> FALSE]
                  /\ UNCHANGED <<tracks, next_id, dets, results, assoc, fresh,
                                 issued, misses, steady, overflow, calls, iouA,
                                 iouB, iouOut>>
                  /\ UNCHANGED <<storeVars, matcherVars, regVars>>
             ELSE /\ Returned(r, detections)
                  /\ twin' = [twin EXCEPT !.pending = TRUE]
                  /\ calls < MaxCalls
                  /\ calls' = calls + 1

\* aging and eviction: any number of frames of unrecognised faces
Next == \E detections \in AgingFrames : Update(detections) /\ UNCHANGED calls

Spec == Init /\ [][Next]_vars

\* frames keep being submitted: update is called again and again
NextFair == \E detections \in FairFrames : Update(detections) /\ UNCHANGED calls

FairSpec == Init /\ [][NextFair]_vars /\ WF_vars(NextFair)

\* association: up to MaxCalls frames of recognised and unrecognised faces
NextAssoc ==
    \E detections \in AssocFrames :
        /\ calls < MaxCalls
        /\ Update(detections)
        /\ calls' = calls + 1

SpecAssoc == Init /\ [][NextAssoc]_vars

\* votes: any number of frames with at most one detection, of one box
NextVotes == \E detections \in VoteFrames : Update(detections) /\ UNCHANGED calls

SpecVotes == Init /\ [][NextVotes]_vars

\* a face that comes and goes at one place: no face, the face recognised as
\* Alice, or the face unrecognised
RedetectFrames == {<<>>, <<Recognised(BoxA, "Alice")>>, <<Unrecognised(BoxA)>>}

NextRedetect == \E detections \in RedetectFrames : Update(detections) /\ UNCHANGED calls

SpecRedetect == Init /\ [][NextRedetect]_vars

\* two trackers: up to MaxCalls frames of a face at one box that is
\* recognised as one of two people or not at all, seen once or twice
TwinDets == {Recognised(BoxA, "Alice"), Recognised(BoxA, "Bob"), Unrecognised(BoxA)}
TwinFrames == FramesOver(TwinDets)

NextTwin ==
    \E second \in BOOLEAN, detections \in TwinFrames :
       UpdateOneOfTwo(second, detections)

SpecTwin == Init /\ [][NextTwin]_vars

\* direct calls of _calculate_iou on every pair of boxes
InitIou ==
    /\ TrackerInit
    /\ StoreIdle
    /\ MatcherIdle
    /\ iouA \in IouBoxes
    /\ iouB \in IouBoxes
    /\ iouOut = <<>>

CallIou ==
    /\ iouOut = <<>>
    /\ iouOut' = <<CalculateIou(iouA, iouB), CalculateIou(iouB, iouA),
                   CalculateIou(iouA, iouA)>>
    /\ UNCHANGED <<tracks, next_id, dets, results, assoc, fresh, issued, misses,
                   steady, overflow, calls, twin, iouA, iouB>>
    /\ UNCHANGED <<storeVars, matcherVars, regVars>>

NextIou == CallIou

SpecIou == InitIou /\ [][NextIou]_vars


(***************************************************************************)
(* Aging and eviction.                                                     *)
(***************************************************************************)
\* the tracks some detection of the last call was associated with
Matched == Range(assoc)

\* C1: in update, a track present before the call has age 0 after it when a
\* detection of the frame was associated with it; otherwise its age is its
\* previous age + 1, and it is deleted in that call exactly when that
\* incremented age exceeds max_age.
C1_AgeResetOrIncrement ==
    [][\A id \in DOMAIN tracks :
         IF id \in Range(assoc')
            THEN id \in DOMAIN tracks' /\ tracks'[id].age = 0
            ELSE /\ id \in DOMAIN tracks' => tracks'[id].age = tracks[id].age + 1
                 /\ id \notin DOMAIN tracks' <=> tracks[id].age + 1 > max_age]_vars

\* a call matched an existing track, left another one at age max_age, and a
\* third track has been evicted
C1_Witness ==
    \E a \in DOMAIN tracks, b \in DOMAIN tracks, c \in issued \ DOMAIN tracks :
        /\ \E i \in DOMAIN assoc : assoc[i] = a /\ ~fresh[i]
        /\ tracks[a].age = 0
        /\ tracks[b].age = max_age
        /\ misses[c] = MissCap

\* C2: a track associated with no detection in max_age + 1 = 11 update calls
\* in a row is absent from the table at the end of the 11th and still present
\* after the 10th; and while frames keep being submitted, a track that has
\* started to age is eventually evicted unless a detection is associated
\* with it again.
C2_EvictedOnEleventhMiss ==
    /\ [](\A id \in issued : id \in DOMAIN tracks <=> misses[id] <= max_age)
    /\ \A id \in 0..(MaxId - 1) :
         (id \in DOMAIN tracks /\ misses[id] >= 1)
            ~> (id \notin DOMAIN tracks \/ misses[id] = 0)

\* one track has just been evicted on its 11th miss while another, with 10
\* misses, is still in the table
C2_Witness ==
    \E a \in issued \ DOMAIN tracks, b \in DOMAIN tracks :
        /\ misses[a] = MissCap
        /\ misses[b] = max_age
        /\ tracks[b].name_votes = <<>>

(***************************************************************************)
(* Track ids.                                                              *)
(***************************************************************************)
\* C10: every track created by a call gets an id greater than every id
\* handed out before it (in earlier calls, and earlier in the same call), so
\* no id is handed out twice, also not after its track was evicted; the
\* counter never decreases and the ids in the table are below it.
C10_IdsStrictlyIncrease ==
    [][/\ next_id' >= next_id
       /\ \A id \in DOMAIN tracks' : id < next_id'
       /\ \A i \in DOMAIN assoc' :
            fresh'[i] =>
               /\ \A old \in issued : assoc'[i] > old
               /\ \A j \in 1..(i - 1) : fresh'[j] => assoc'[i] > assoc'[j]]_vars

\* a track was created after an earlier track had been evicted
C10_Witness ==
    /\ issued \ DOMAIN tracks # {}
    /\ \E i \in DOMAIN assoc :
         fresh[i] /\ \E old \in issued \ DOMAIN tracks : old < assoc[i]


(***************************************************************************)
(* Votes and the emitted label.                                            *)
(***************************************************************************)
\* C3: for a detection associated with an existing track whose name_votes
\* is non-empty after the frame's vote was pushed, the emitted name is one of
\* the track's names, no other name of the track has more retained votes, or
\* as many with a greater mean, and the emitted confidence is the mean of the
\* emitted name's votes.
C3_LabelMaximisesCountThenMean ==
    \A i \in DOMAIN results :
        (~fresh[i] /\ tracks[assoc[i]].name_votes # <<>>) =>
            LET nv == tracks[assoc[i]].name_votes
            IN  \E k \in DOMAIN nv :
                  /\ results[i].name = nv[k].name
                  /\ results[i].confidence = Mean(nv[k].votes)
                  /\ \A j \in DOMAIN nv :
                        /\ Len(nv[j].votes) <= Len(nv[k].votes)
                        /\ Len(nv[j].votes) = Len(nv[k].votes) =>
                              ~FLess(Mean(nv[k].votes), Mean(nv[j].votes))

\* after five votes of 0.75 for Alice, one vote of 0.95 for Bob: the label
\* stays Alice
C3_Witness ==
    \E i \in DOMAIN results :
        /\ ~fresh[i]
        /\ dets[i].name = "Bob" /\ dets[i].is_known
        /\ VotesFor(tracks[assoc[i]].name_votes, "Alice")
              = <<Conf075, Conf075, Conf075, Conf075, Conf075>>
        /\ VotesFor(tracks[assoc[i]].name_votes, "Bob") = <<Conf095>>
        /\ results[i].name = "Alice"
        /\ results[i].confidence = Conf075

\* the names of a name_votes dict
C9_Names(name_votes) == {name_votes[k].name : k \in DOMAIN name_votes}

\* C9: every vote queue of every track holds between 1 and history_size = 5
\* confidences; a call changes the votes of a track it matched only when the
\* detection has a non-empty name and is_known is true, and then only that
\* name's queue: the confidence is appended, after the oldest vote was dropped
\* when the queue held 5; a created track holds a vote under the same
\* condition.
C9_QueuesBoundedFifo ==
    [][/\ \A id \in DOMAIN tracks' : \A k \in DOMAIN tracks'[id].name_votes :
            /\ Len(tracks'[id].name_votes[k].votes) >= 1
            /\ Len(tracks'[id].name_votes[k].votes) <= history_size
       /\ \A i \in DOMAIN assoc' :
            LET d   == dets'[i]
                new == tracks'[assoc'[i]].name_votes
                old == IF fresh'[i] THEN <<>> ELSE tracks[assoc'[i]].name_votes
                q   == VotesFor(old, d.name)
            IN  IF d.name # "" /\ d.is_known
                   THEN /\ C9_Names(new) = C9_Names(old) \cup {d.name}
                        /\ \A n \in C9_Names(old) \ {d.name} :
                              VotesFor(new, n) = VotesFor(old, n)
                        /\ VotesFor(new, d.name) =
                              IF Len(q) < history_size THEN q \o <<d.confidence>>
                              ELSE SubSeq(q, 2, Len(q)) \o <<d.confidence>>
                   ELSE new = old]_vars

\* a sixth vote for Alice was pushed on her full queue
C9_Witness ==
    /\ overflow
    /\ \E i \in DOMAIN assoc :
         /\ ~fresh[i]
         /\ dets[i].name = "Alice" /\ dets[i].is_known
         /\ VotesFor(tracks[assoc[i]].name_votes, "Alice")
               = <<Conf075, Conf075, Conf095, Conf095, Conf075>>

(***************************************************************************)
(* The steady stream: every frame is the same single detection.            *)
(***************************************************************************)
\* a detection carrying a known name
C6_KnownName(d) == d.name # "" /\ d.name # "Unknown" /\ d.is_known

C6_NonDegenerate(bbox) == bbox[3] > 0 /\ bbox[4] > 0

\* a and b are in the same binade and their significands differ by at most
\* n units in the last place
C6_WithinUlps(a, b, n) ==
    /\ a[1] = b[1]
    /\ a[2] - b[2] \in {-1, 0, 1}
    /\ (a[2] - b[2]) * Limb + (a[3] - b[3]) \in (0 - n)..n

\* the table holds the one track 0 and no second id was handed out
C6_OneTrack == DOMAIN tracks = {0} /\ next_id = 1 /\ issued = {0}

\* C6 as stated: in a steady stream of one non-degenerate box with a known
\* name N and confidence c, one track is created and reused, and every update
\* from the second frame on emits (box, N, c, True).
C6_Original ==
    (steady.phase \in {"first", "repeat"} /\ C6_KnownName(steady.det)
        /\ C6_NonDegenerate(steady.det.bbox)) =>
       /\ C6_OneTrack
       /\ steady.phase = "repeat" =>
             /\ fresh = <<FALSE>> /\ assoc = <<0>>
             /\ results = <<[bbox |-> steady.det.bbox, name |-> steady.det.name,
                             confidence |-> steady.det.confidence, is_known |-> TRUE]>>

\* C6, amended: as above, but the emitted confidence is the binary64 mean of
\* the retained copies of c, which is within 2 units in the last place of c
\* (0.9499999999999998 for three copies of 0.95).
C6_SteadyStreamOneTrack ==
    (steady.phase \in {"first", "repeat"} /\ C6_KnownName(steady.det)
        /\ C6_NonDegenerate(steady.det.bbox)) =>
       /\ C6_OneTrack
       /\ steady.phase = "repeat" =>
             /\ fresh = <<FALSE>> /\ assoc = <<0>>
             /\ Len(results) = 1
             /\ results[1].bbox = steady.det.bbox
             /\ results[1].name = steady.det.name
             /\ results[1].is_known = TRUE
             /\ C6_WithinUlps(results[1].confidence, steady.det.confidence, 2)

\* the steady stream of (Alice, 0.95) has filled the queue with 5 votes and
\* the sixth frame emits Alice
C6_Witness ==
    /\ steady.phase = "repeat"
    /\ steady.det.name = "Alice" /\ steady.det.confidence = Conf095
    /\ overflow
    /\ Len(results) = 1 /\ results[1].name = "Alice" /\ results[1].is_known

(***************************************************************************)
(* The is_known flag of the emitted tuples.                                *)
(***************************************************************************)
\* C8: every tuple returned by update, for a matched and for a created track
\* alike, has is_known equal to (name != "Unknown").
C8_IsKnownIffNamed ==
    \A i \in DOMAIN results : results[i].is_known = (results[i].name # "Unknown")


(***************************************************************************)
(* Association of detections with tracks.                                  *)
(***************************************************************************)
\* the tracks of the table that survive the aging of the next call
C4_Survivors == {id \in DOMAIN tracks : tracks[id].age < max_age}

\* r = s for two ratios with positive denominators
C4_RatioEqual(r, s) == r[1] * s[2] = s[1] * r[2]

\* C4: update associates each detection with a track not yet claimed in the
\* call whose IoU with the detection box is the largest among the unclaimed
\* tracks with IoU > 0.5; when no unclaimed track has IoU > 0.5 (IoU = 0.5
\* does not qualify) a track is created with age 0, the detection's bbox, and
\* name_votes holding the detection's (name, confidence) when it is known
\* and nothing otherwise.
C4_BestUnclaimedOrNewTrack ==
    [][\A i \in DOMAIN dets' :
         LET d        == dets'[i]
             claimed  == {assoc'[j] : j \in 1..(i - 1)}
             iou(id)  == CalculateIou(d.bbox, tracks[id].bbox)
             cands    == {id \in C4_Survivors \ claimed :
                             RatioGreater(iou(id), <<iou_threshold_num, iou_threshold_den>>)}
         IN  IF cands # {}
                THEN /\ ~fresh'[i]
                     /\ assoc'[i] \in cands
                     /\ \A id \in cands : ~RatioGreater(iou(id), iou(assoc'[i]))
                ELSE /\ fresh'[i]
                     /\ assoc'[i] \notin DOMAIN tracks
                     /\ tracks'[assoc'[i]] =
                           [bbox |-> d.bbox, age |-> 0,
                            name_votes |->
                               IF d.name # "" /\ d.is_known
                                  THEN <<[name |-> d.name, votes |-> <<d.confidence>>]>>
                                  ELSE <<>>]]_vars

\* one detection went to the track of greatest IoU although an unclaimed
\* track of lower id also had IoU > 0.5, and another detection of the frame
\* got a new track although an unclaimed track had IoU 0.5 exactly with it
C4_Witness ==
    \E i \in DOMAIN dets, j \in DOMAIN dets :
        /\ ~fresh[i]
        /\ \E other \in DOMAIN tracks \ Matched :
              /\ other < assoc[i]
              /\ RatioGreater(CalculateIou(dets[i].bbox, tracks[other].bbox),
                              <<iou_threshold_num, iou_threshold_den>>)
        /\ fresh[j]
        /\ tracks[assoc[j]].name_votes = <<>>
        /\ \E other \in DOMAIN tracks \ Matched :
              C4_RatioEqual(CalculateIou(dets[j].bbox, tracks[other].bbox),
                            <<iou_threshold_num, iou_threshold_den>>)

\* C7: within one call of update no track is associated with two detections,
\* whether it was matched by or created for the earlier one.
C7_NoTrackClaimedTwice ==
    \A i \in DOMAIN assoc, j \in DOMAIN assoc : i # j => assoc[i] # assoc[j]

\* two detections with the same box in one frame: the first matched an
\* existing track, the second went to another track
C7_Witness ==
    /\ Len(dets) = 2
    /\ dets[1].bbox = dets[2].bbox
    /\ ~fresh[1]
    /\ assoc[1] # assoc[2]
    /\ tracks[assoc[1]].bbox = dets[2].bbox

(***************************************************************************)
(* _calculate_iou on its own.                                              *)
(***************************************************************************)
\* the boxes are disjoint or only touch along an edge or at a corner
C5_DisjointOrTouching(a, b) ==
    \/ a[1] + a[3] <= b[1]
    \/ b[1] + b[3] <= a[1]
    \/ a[2] + a[4] <= b[2]
    \/ b[2] + b[4] <= a[2]

\* C5: for boxes with non-negative integer w and h, IoU(a, a) = 1 when w > 0
\* and h > 0; IoU(a, b) = IoU(b, a); IoU(a, b) = 0 when the boxes are disjoint
\* or only touch; and IoU = 0, with no division by zero, when the union area
\* is zero.  iouOut holds IoU(a, b), IoU(b, a), IoU(a, a).
C5_IouLaws ==
    iouOut # <<>> =>
       /\ \A k \in 1..3 : iouOut[k][2] > 0 /\ iouOut[k][1] >= 0
       /\ (iouA[3] > 0 /\ iouA[4] > 0) => iouOut[3][1] = iouOut[3][2]
       /\ iouOut[1] = iouOut[2]
       /\ C5_DisjointOrTouching(iouA, iouB) => iouOut[1][1] = 0
       /\ (iouA[3] * iouA[4] = 0 /\ iouB[3] * iouB[4] = 0) => iouOut[1][1] = 0

\* two different boxes that overlap, the first of positive area
C5_Witness ==
    /\ iouOut # <<>>
    /\ iouA # iouB
    /\ iouA[3] > 0 /\ iouA[4] > 0
    /\ iouOut[1][1] > 0
    /\ iouOut[1][1] < iouOut[1][2]


(***************************************************************************)
(* The gallery in memory (database_manager.py).                            *)
(***************************************************************************)
\* the position of name among the items of the dict, 0 when it is absent
IndexOfName(db, name) ==
    IF \E i \in DOMAIN db : db[i].name = name
       THEN CHOOSE i \in DOMAIN db : db[i].name = name
       ELSE 0

\* database_manager.py:85-90  the dict after "if name not in self.database"
CreateIfAbsent(db, name, t) ==
    IF IndexOfName(db, name) = 0
       THEN Append(db, [name |-> name, encodings |-> <<>>,
                        metadata |-> [added_date |-> t, last_updated |-> t]])
       ELSE db

\* the encoding is appended only for a name that was there before
AppendEncodingIfKnown(db, db0, name, encoding, t) ==
    IF IndexOfName(db0, name) = 0 THEN db
    ELSE [db EXCEPT ![IndexOfName(db, name)] =
             [@ EXCEPT !.encodings = Append(@, encoding),
                       !.metadata = [@ EXCEPT !.last_updated = t]]]

\* the encoding is put in front of the earlier ones
AppendEncodingInFront(db, db0, name, encoding, t) ==
    [db EXCEPT ![IndexOfName(db, name)] =
        [@ EXCEPT !.encodings = <<encoding>> \o @,
                  !.metadata = [@ EXCEPT !.last_updated = t]]]

\* database_manager.py:92-93  append the encoding, stamp last_updated
\* (db0 is the dict as add_person found it)
AppendEncoding(db, db0, name, encoding, t) ==
    [db EXCEPT ![IndexOfName(db, name)] =
        [@ EXCEPT !.encodings = Append(@, encoding),
                  !.metadata = [@ EXCEPT !.last_updated = t]]]

\* database_manager.py:77-95  self.database after add_person(name, encoding)
AddPersonTo(db, name, encoding, t) ==
    AppendEncoding(CreateIfAbsent(db, name, t), db, name, encoding, t)

\* del self.database[name] that leaves the item in place
KeepPerson(db, name) == db

\* database_manager.py:100  del self.database[name]
DeletePerson(db, name) == SelectSeq(db, LAMBDA item : item.name # name)

\* database_manager.py:97-102  remove_person: the dict after it and its
\* return value
RemovePersonFrom(db, name) ==
    IF IndexOfName(db, name) # 0
       THEN [database |-> DeletePerson(db, name), value |-> TRUE]
       ELSE [database |-> db, value |-> FALSE]

RECURSIVE GetAllEncodings(_)
\* database_manager.py:108-122  the samples of all items in dict order, each
\* with its owner's name
GetAllEncodings(db) ==
    IF db = <<>> THEN [encodings |-> <<>>, names |-> <<>>]
    ELSE LET rest == GetAllEncodings(Tail(db))
             item == Head(db)
         IN  [encodings |-> item.encodings \o rest.encodings,
              names |-> [i \in 1..Len(item.encodings) |-> item.name] \o rest.names]

(***************************************************************************)
(* The matcher (face_matcher.py).  The components of the encodings, the    *)
(* distances and the tolerance are exact numbers counted in units of       *)
(* epsilon (1e-10): a component k stands for k * 1e-10 and a ratio         *)
(* <<n, m>> for (n / m) * 1e-10.  A confidence is <<whole, part>>, two     *)
(* ratios standing for whole + part * 1e-10; every part that can be        *)
(* written here is far below 1e10, so such numbers are ordered by their    *)
(* wholes first.                                                           *)
(***************************************************************************)
epsilon == 1

RatioAdd(r, s) == <<r[1] * s[2] + s[1] * r[2], r[2] * s[2]>>

RatioLess(r, s) == RatioGreater(s, r)

\* face_matcher.py:12  the arithmetic of two arrays is element by element
\* when their lengths are equal, an array of one element is stretched to the
\* length of the other, and any other pair of lengths raises ValueError
Broadcastable(encoding1, encoding2) ==
    \/ Len(encoding1) = Len(encoding2)
    \/ Len(encoding1) = 1
    \/ Len(encoding2) = 1

\* element i of an array in such arithmetic
Component(encoding, i) == IF Len(encoding) = 1 THEN encoding[1] ELSE encoding[i]

RECURSIVE ChiTerms(_, _, _)
\* np.sum of ((e1 - e2) ** 2) / (e1 + e2 + epsilon) over the components from i
ChiTerms(encoding1, encoding2, i) ==
    IF i > Max2(Len(encoding1), Len(encoding2)) THEN <<0, 1>>
    ELSE RatioAdd(<<(Component(encoding1, i) - Component(encoding2, i))
                       * (Component(encoding1, i) - Component(encoding2, i)),
                    Component(encoding1, i) + Component(encoding2, i) + epsilon>>,
                  ChiTerms(encoding1, encoding2, i + 1))

RECURSIVE ChiTermsOfSums(_, _, _)
ChiTermsOfSums(encoding1, encoding2, i) ==
    IF i > Len(encoding1) THEN <<0, 1>>
    ELSE RatioAdd(<<(encoding1[i] + encoding2[i]) * (encoding1[i] + encoding2[i]),
                    encoding1[i] + encoding2[i] + epsilon>>,
                  ChiTermsOfSums(encoding1, encoding2, i + 1))

\* the distance with the sum of the two components squared, not their difference
CalculateDistanceOfSums(encoding1, encoding2) ==
    LET total == ChiTermsOfSums(encoding1, encoding2, 1)
    IN  <<total[1], 2 * total[2]>>

\* face_matcher.py:9-13  _calculate_distance
CalculateDistance(encoding1, encoding2) ==
    LET total == ChiTerms(encoding1, encoding2, 1)
    IN  <<total[1], 2 * total[2]>>

\* face_matcher.py:12  the subtraction raises on some known encoding
DistancesRaise(encoding, known_encodings) ==
    \E i \in DOMAIN known_encodings : ~Broadcastable(encoding, known_encodings[i])

\* face_matcher.py:15-20  _calculate_distances
CalculateDistances(encoding, known_encodings) ==
    [i \in DOMAIN known_encodings |-> CalculateDistance(encoding, known_encodings[i])]

\* face_matcher.py:29  np.argmin: the first index of the smallest distance;
\* 0 stands for the ValueError it raises on an empty array
ArgMin(distances) ==
    IF distances = <<>> THEN 0
    ELSE CHOOSE i \in DOMAIN distances :
            /\ \A j \in DOMAIN distances : ~RatioLess(distances[j], distances[i])
            /\ \A j \in DOMAIN distances :
                  j < i => RatioLess(distances[i], distances[j])

\* the floats 0.0 and 1.0
NumZero == <<<<0, 1>>, <<0, 1>>>>
NumOne  == <<<<1, 1>>, <<0, 1>>>>

NumLess(x, y) ==
    \/ RatioLess(x[1], y[1])
    \/ /\ ~RatioLess(y[1], x[1])
       /\ RatioLess(x[2], y[2])

\* Python's min(a, b) and max(a, b): b only when it is strictly smaller
\* (larger) than a
PyMin(a, b) == IF NumLess(b, a) THEN b ELSE a
PyMax(a, b) == IF NumLess(a, b) THEN b ELSE a

\* face_matcher.py:34-35  1.0 - (distance / 2.0), clamped to [0.0, 1.0]
Confidence(distance) ==
    LET confidence == <<<<1, 1>>, <<0 - distance[1], 2 * distance[2]>>>>
    IN  PyMax(NumZero, PyMin(NumOne, confidence))

\* the test with < for <=
WithinToleranceStrict(distance, tol) == RatioLess(distance, tol)

\* face_matcher.py:32  best_distance <= self.tolerance
WithinTolerance(distance, tol) == ~RatioGreater(distance, tol)

\* Python's None and a name that is there
None == <<>>
Some(name) == <<name>>

\* what a call returns: (name, confidence), or the exception it raised
Returns(name, confidence) == [name |-> name, confidence |-> confidence, raised |-> ""]
Raises(exception) == [name |-> None, confidence |-> NumZero, raised |-> exception]

NoMatch == Returns(None, NumZero)

\* the gallery is never taken for empty
NotKnownNever(known_encodings) == FALSE

\* face_matcher.py:25, 50, 83  "if not known_encodings"
NotKnown(known_encodings) == known_encodings = <<>>

\* face_matcher.py:22-38  match_face
MatchFace(db, tol, encoding) ==
    LET known == GetAllEncodings(db)
        distances == CalculateDistances(encoding, known.encodings)
        best_match_idx == ArgMin(distances)
        best_distance == distances[best_match_idx]
    IN  IF NotKnown(known.encodings) THEN NoMatch
        ELSE IF DistancesRaise(encoding, known.encodings) THEN Raises("ValueError")
        ELSE IF best_match_idx = 0 THEN Raises("ValueError")
        ELSE IF WithinTolerance(best_distance, tol)
           THEN Returns(Some(known.names[best_match_idx]), Confidence(best_distance))
           ELSE NoMatch

\* face_matcher.py:54  np.argsort(distances): the indices by ascending
\* distance, equal distances in index order (the sort of an array of up to 16
\* elements is an insertion sort)
ArgSort(distances) ==
    LET before(j, i) == \/ RatioLess(distances[j], distances[i])
                        \/ /\ ~RatioLess(distances[i], distances[j])
                           /\ j < i
        rank(i) == 1 + Cardinality({j \in DOMAIN distances : before(j, i)})
    IN  [k \in DOMAIN distances |-> CHOOSE i \in DOMAIN distances : rank(i) = k]

RECURSIVE NumSum(_)
NumSum(q) ==
    IF q = <<>> THEN NumZero
    ELSE LET rest == NumSum(Tail(q))
         IN  <<RatioAdd(Head(q)[1], rest[1]), RatioAdd(Head(q)[2], rest[2])>>

\* np.mean of a list of confidences
NumMean(q) ==
    LET total == NumSum(q)
    IN  <<<<total[1][1], total[1][2] * Len(q)>>, <<total[2][1], total[2][2] * Len(q)>>>>

RECURSIVE GroupByName(_, _)
\* face_matcher.py:64-70  name_votes: the confidences of the valid matches
\* under their names, names in the order of their first match
GroupByName(name_votes, valid_matches) ==
    IF valid_matches = <<>> THEN name_votes
    ELSE LET name == Head(valid_matches).name
             confidence == Confidence(Head(valid_matches).dist)
             i == IndexOfName(name_votes, name)
             pushed == IF i = 0
                          THEN Append(name_votes, [name |-> name, votes |-> <<confidence>>])
                          ELSE [name_votes EXCEPT ![i].votes = Append(@, confidence)]
         IN  GroupByName(pushed, Tail(valid_matches))

\* the first item with the most votes
BestVotedByCount(name_votes) ==
    name_votes[CHOOSE i \in DOMAIN name_votes :
                  /\ \A j \in DOMAIN name_votes :
                        Len(name_votes[i].votes) >= Len(name_votes[j].votes)
                  /\ \A j \in DOMAIN name_votes :
                        j < i => Len(name_votes[j].votes) < Len(name_votes[i].votes)]

\* face_matcher.py:72  max(name_votes.items(), key=np.mean): the first item
\* of the greatest mean
BestVoted(name_votes) ==
    name_votes[CHOOSE i \in DOMAIN name_votes :
                  /\ \A j \in DOMAIN name_votes :
                        ~NumLess(NumMean(name_votes[i].votes), NumMean(name_votes[j].votes))
                  /\ \A j \in DOMAIN name_votes :
                        j < i => NumLess(NumMean(name_votes[j].votes),
                                         NumMean(name_votes[i].votes))]

\* face_matcher.py:47-75  match_with_voting
MatchWithVoting(db, tol, encoding, top_k) ==
    LET known == GetAllEncodings(db)
        distances == CalculateDistances(encoding, known.encodings)
        top_k_indices == SubSeq(ArgSort(distances), 1, Min2(top_k, Len(distances)))
        top_k_matches == [k \in DOMAIN top_k_indices |->
                             [name |-> known.names[top_k_indices[k]],
                              dist |-> distances[top_k_indices[k]]]]
        valid_matches == SelectSeq(top_k_matches,
                                   LAMBDA m : WithinTolerance(m.dist, tol))
        best_name == BestVoted(GroupByName(<<>>, valid_matches))
    IN  IF NotKnown(known.encodings) THEN NoMatch
        ELSE IF DistancesRaise(encoding, known.encodings) THEN Raises("ValueError")
        ELSE IF valid_matches = <<>> THEN NoMatch
        ELSE Returns(Some(best_name.name), NumMean(best_name.votes))

\* face_matcher.py:95  matches.sort(key=confidence, reverse=True): by
\* descending confidence, equal confidences in their earlier order
SortByConfidence(matches) ==
    LET before(j, i) == \/ NumLess(matches[i].confidence, matches[j].confidence)
                        \/ /\ ~NumLess(matches[j].confidence, matches[i].confidence)
                           /\ j < i
        rank(i) == 1 + Cardinality({j \in DOMAIN matches : before(j, i)})
    IN  [k \in DOMAIN matches |->
            matches[CHOOSE i \in DOMAIN matches : rank(i) = k]]

\* what get_all_matches returns, or the exception it raises
Matches(matches) == [matches |-> matches, raised |-> ""]
MatchesRaises(exception) == [matches |-> <<>>, raised |-> exception]

\* face_matcher.py:77-96  get_all_matches
GetAllMatches(db, tol, encoding, threshold) ==
    LET known == GetAllEncodings(db)
        distances == CalculateDistances(encoding, known.encodings)
        within == SelectSeq([i \in DOMAIN distances |-> i],
                            LAMBDA i : WithinTolerance(distances[i], threshold))
        matches == [k \in DOMAIN within |->
                       [name |-> known.names[within[k]],
                        confidence |-> Confidence(distances[within[k]])]]
    IN  IF NotKnown(known.encodings) THEN Matches(<<>>)
        ELSE IF DistancesRaise(encoding, known.encodings) THEN MatchesRaises("ValueError")
        ELSE Matches(SortByConfidence(matches))

(***************************************************************************)
(* The gallery file (database_manager.py).  pickle.dump writes the dict as *)
(* a stream that opens with the protocol mark and closes with the stop     *)
(* mark; between them every item puts down its key, its metadata and its   *)
(* encodings in order.  pickle.load reads such a stream back and raises on *)
(* anything else, a stream cut short included.  A file is                  *)
(* [exists, readable, bytes].                                              *)
(***************************************************************************)
NoMeta == [added_date |-> 0, last_updated |-> 0]

Token(op, name, metadata, encoding) ==
    [op |-> op, name |-> name, metadata |-> metadata, encoding |-> encoding]

Mark(op) == Token(op, "", NoMeta, <<>>)

\* only the first encoding of an item is written
DumpItemFirstOnly(item) ==
    <<Token("KEY", item.name, NoMeta, <<>>),
      Token("META", "", item.metadata, <<>>)>>
    \o [i \in 1..Min2(1, Len(item.encodings)) |-> Token("ENC", "", NoMeta, item.encodings[i])]

\* database_manager.py:34  pickle.dump, one item of the dict
DumpItem(item) ==
    <<Token("KEY", item.name, NoMeta, <<>>),
      Token("META", "", item.metadata, <<>>)>>
    \o [i \in DOMAIN item.encodings |-> Token("ENC", "", NoMeta, item.encodings[i])]

RECURSIVE DumpItems(_)
DumpItems(db) ==
    IF db = <<>> THEN <<>> ELSE DumpItem(Head(db)) \o DumpItems(Tail(db))

\* database_manager.py:34  pickle.dump(self.database, f): the bytes written
Dump(db) == <<Mark("PROTO")>> \o DumpItems(db) \o <<Mark("STOP")>>

RECURSIVE ParseItems(_, _)
\* the items read from the tokens between the marks, onto db; ok is FALSE
\* when the tokens are not the items of a dict
ParseItems(tokens, db) ==
    IF tokens = <<>> THEN [ok |-> TRUE, database |-> db]
    ELSE LET t == Head(tokens)
         IN  IF t.op = "KEY"
                THEN IF Len(tokens) >= 2 /\ tokens[2].op = "META"
                        THEN ParseItems(Tail(Tail(tokens)),
                                 Append(db, [name |-> t.name, encodings |-> <<>>,
                                             metadata |-> tokens[2].metadata]))
                        ELSE [ok |-> FALSE, database |-> <<>>]
             ELSE IF t.op = "ENC" /\ db # <<>>
                THEN ParseItems(Tail(tokens),
                         [db EXCEPT ![Len(db)] =
                             [@ EXCEPT !.encodings = Append(@, t.encoding)]])
             ELSE [ok |-> FALSE, database |-> <<>>]

\* database_manager.py:24  pickle.load(f)
Load(bytes) ==
    IF /\ Len(bytes) >= 2
       /\ bytes[1].op = "PROTO"
       /\ bytes[Len(bytes)].op = "STOP"
       THEN ParseItems(SubSeq(bytes, 2, Len(bytes) - 1), <<>>)
       ELSE [ok |-> FALSE, database |-> <<>>]

Loaded(db, warned, raised) == [database |-> db, warned |-> warned, raised |-> raised]

\* _load_database without its try/except
LoadDatabaseUnguarded(f) ==
    IF f.exists
       THEN IF f.readable /\ Load(f.bytes).ok
               THEN Loaded(Load(f.bytes).database, FALSE, FALSE)
               ELSE Loaded(<<>>, FALSE, TRUE)
       ELSE Loaded(<<>>, FALSE, FALSE)

\* database_manager.py:19-28  _load_database: the dict it returns, whether it
\* printed the warning, whether it raised
LoadDatabase(f) ==
    IF f.exists
       THEN IF f.readable /\ Load(f.bytes).ok
               THEN Loaded(Load(f.bytes).database, FALSE, FALSE)
               ELSE Loaded(<<>>, TRUE, FALSE)
       ELSE Loaded(<<>>, FALSE, FALSE)

\* database_manager.py:48-61  _save_metadata: what json.dump writes
Metadata(db) ==
    [i \in DOMAIN db |->
        [name |-> db[i].name, num_encodings |-> Len(db[i].encodings),
         added_date |-> db[i].metadata.added_date,
         last_updated |-> db[i].metadata.last_updated]]

\* the failures that leave save_database through its except clause: of the
\* open or the write of the gallery file, of the metadata file, of the mkdir
\* of the backups directory
Fatal == {"open", "dump", "metadata", "mkdir"}

\* save_database returns True whatever failed
SaveReturnsTrue(failed) == TRUE

\* database_manager.py:43-46  what save_database returns after the failures
\* of its writes; a failed write of the backup file is caught in
\* _create_backup (database_manager.py:74-75)
SaveReturns(failed) == failed \cap Fatal = {}

(***************************************************************************)
(* Calls of the store and of the matcher.                                  *)
(***************************************************************************)
MaxSamples == 2

Names == {"Alice", "Bob"}

\* encodings of two bins
Encodings == {<<0, 0>>, <<1, 0>>, <<0, 1>>, <<1, 1>>}

\* recognition.tolerance of the configuration: 0 and a quarter of epsilon,
\* the distance of two encodings that differ by one in one bin
Tolerances == {<<0, 1>>, <<1, 4>>}

TopKs == {1, 3}

TotalSamples(db) == Len(GetAllEncodings(db).encodings)

\* database_manager.py:77-95  add_person(name, encoding)
AddPerson(name, encoding) ==
    /\ constructed \in {"ok", "warned"}
    /\ save.pc = "idle"
    /\ TotalSamples(database) < MaxSamples
    /\ database' = AddPersonTo(database, name, encoding, now)
    /\ ret' = [op |-> "add_person", name |-> name, encoding |-> encoding,
               value |-> TRUE]
    /\ removed' = removed \ {name}
    /\ UNCHANGED <<constructed, file, sidecar, backups, now, save, observed,
                   backup_enabled>>
    /\ UNCHANGED <<matcherVars, trackerVars, iouA, iouB, iouOut, regVars>>

\* database_manager.py:97-102  remove_person(name)
RemovePerson(name) ==
    /\ constructed \in {"ok", "warned"}
    /\ save.pc = "idle"
    /\ database' = RemovePersonFrom(database, name).database
    /\ ret' = [op |-> "remove_person", name |-> name,
               value |-> RemovePersonFrom(database, name).value]
    /\ removed' = IF RemovePersonFrom(database, name).value
                     THEN removed \cup {name} ELSE removed
    /\ UNCHANGED <<constructed, file, sidecar, backups, now, save, observed,
                   backup_enabled>>
    /\ UNCHANGED <<matcherVars, trackerVars, iouA, iouB, iouOut, regVars>>

\* a call of the matcher on the gallery as it is
Answer(op, encoding, out) ==
    /\ constructed \in {"ok", "warned"}
    /\ save.pc = "idle"
    /\ ret' = [op |-> op, encoding |-> encoding, out |-> out]
    /\ UNCHANGED <<database, constructed, file, sidecar, backups, now, save,
                   observed, removed, backup_enabled>>
    /\ UNCHANGED <<tolerance, trackerVars, iouA, iouB, iouOut, regVars>>

\* face_matcher.py:22-38  match_face(encoding)
CallMatchFace(encoding) ==
    Answer("match_face", encoding, MatchFace(database, tolerance, encoding))

\* face_matcher.py:47-75  match_with_voting(encoding, top_k)
CallMatchWithVoting(encoding, top_k) ==
    /\ constructed \in {"ok", "warned"}
    /\ save.pc = "idle"
    /\ ret' = [op |-> "match_with_voting", encoding |-> encoding, top_k |-> top_k,
               out |-> MatchWithVoting(database, tolerance, encoding, top_k)]
    /\ UNCHANGED <<database, constructed, file, sidecar, backups, now, save,
                   observed, removed, backup_enabled>>
    /\ UNCHANGED <<tolerance, trackerVars, iouA, iouB, iouOut, regVars>>

\* face_matcher.py:77-96  get_all_matches(encoding), threshold left None
CallGetAllMatches(encoding) ==
    Answer("get_all_matches", encoding,
           GetAllMatches(database, tolerance, encoding, tolerance))

\* database_manager.py:11-28 and face_matcher.py:4-7: a FaceDatabase built
\* where no gallery file is, and a FaceMatcher with the configured tolerance
InitMatch ==
    /\ TrackerInit
    /\ IouIdle
    /\ database = <<>>
    /\ constructed = "ok"
    /\ file = NoFile
    /\ sidecar = NoFile
    /\ backups = <<>>
    /\ now = 0
    /\ save = SaveIdle
    /\ ret = NoCall
    /\ observed = <<>>
    /\ removed = {}
    /\ registration = NoRegistration
    /\ backup_enabled = TRUE
    /\ tolerance \in Tolerances

NextMatch ==
    \/ \E name \in Names, encoding \in Encodings : AddPerson(name, encoding)
    \/ \E name \in Names : RemovePerson(name)
    \/ \E encoding \in Encodings : CallMatchFace(encoding)
    \/ \E encoding \in Encodings, top_k \in TopKs : CallMatchWithVoting(encoding, top_k)
    \/ \E encoding \in Encodings : CallGetAllMatches(encoding)

SpecMatch == InitMatch /\ [][NextMatch]_vars

\* the matcher on vectors of one, two and three components: add_person
\* stores whatever it is given
DimEncodings == {<<1>>, <<1, 1>>, <<1, 0>>, <<1, 0, 0>>}

NextDims ==
    \/ \E name \in Names, encoding \in DimEncodings : AddPerson(name, encoding)
    \/ \E encoding \in DimEncodings : CallMatchFace(encoding)
    \/ \E encoding \in DimEncodings, top_k \in TopKs : CallMatchWithVoting(encoding, top_k)
    \/ \E encoding \in DimEncodings : CallGetAllMatches(encoding)

SpecDims == InitMatch /\ [][NextDims]_vars

\* match_with_voting on galleries of MaxVoting samples, registered by that
\* many add_person calls, under tolerances that admit a quarter and a half
MaxVoting == 3

\* from (1, 0) the encoding (2, 0) is at distance 1/8 and (0, 1) at 1/2;
\* (2, 0) and (0, 1) are 11/12 apart
VotingEncodings == {<<1, 0>>, <<0, 1>>, <<2, 0>>}

VotingSamples == Names \X VotingEncodings

VotingTolerances == {<<1, 4>>, <<1, 2>>}

RECURSIVE Registered(_)
Registered(q) ==
    IF q = <<>> THEN <<>>
    ELSE AddPersonTo(Registered(SubSeq(q, 1, Len(q) - 1)),
                     q[Len(q)][1], q[Len(q)][2], 0)

InitVoting ==
    /\ TrackerInit
    /\ IouIdle
    /\ database \in {Registered(q) : q \in [1..MaxVoting -> VotingSamples]}
    /\ constructed = "ok"
    /\ file = NoFile
    /\ sidecar = NoFile
    /\ backups = <<>>
    /\ now = 0
    /\ save = SaveIdle
    /\ ret = NoCall
    /\ observed = <<>>
    /\ removed = {}
    /\ registration = NoRegistration
    /\ backup_enabled = TRUE
    /\ tolerance \in VotingTolerances

NextVoting ==
    \E encoding \in VotingEncodings, top_k \in TopKs :
        CallMatchWithVoting(encoding, top_k)

SpecVoting == InitVoting /\ [][NextVoting]_vars

(***************************************************************************)
(* The store and its files.  save_database runs in steps, one for each     *)
(* access to a file, so that a failure can fall between two of them and    *)
(* another process can read the gallery file between two of them.          *)
(***************************************************************************)
otherVars == <<matcherVars, trackerVars, iouA, iouB, iouOut, regVars>>

\* the failures of file accesses in one run
MaxFaults == 1

\* database_manager.py:11-17  FaceDatabase(config): a process starts and
\* loads the gallery file
Construct ==
    /\ save.pc = "idle"
    /\ \E r \in {LoadDatabase(file)} :
          /\ database' = r.database
          /\ constructed' = IF r.raised THEN "raised"
                            ELSE IF r.warned THEN "warned" ELSE "ok"
          /\ ret' = [op |-> "__init__", name |-> "", value |-> ~r.raised,
                     saved |-> /\ ret.op \in {"save_database", "clear_database"}
                               /\ ret.value]
    /\ removed' = {}
    /\ UNCHANGED <<file, sidecar, backups, now, save, observed, backup_enabled>>
    /\ UNCHANGED otherVars

\* database_manager.py:30-32  save_database is called
SaveDatabase ==
    /\ constructed \in {"ok", "warned"}
    /\ save.pc = "idle"
    /\ save' = [save EXCEPT !.pc = "open", !.op = "save_database",
                            !.failed = {}, !.before = file]
    /\ UNCHANGED <<database, constructed, file, sidecar, backups, now, ret,
                   observed, removed, backup_enabled>>
    /\ UNCHANGED otherVars

\* database_manager.py:139-142  clear_database, up to its call of
\* save_database
ClearDatabase ==
    /\ constructed \in {"ok", "warned"}
    /\ save.pc = "idle"
    /\ database' = <<>>
    /\ removed' = removed \cup {database[i].name : i \in DOMAIN database}
    /\ save' = [save EXCEPT !.pc = "open", !.op = "clear_database",
                            !.failed = {}, !.before = file]
    /\ UNCHANGED <<constructed, file, sidecar, backups, now, ret, observed,
                   backup_enabled>>
    /\ UNCHANGED otherVars

\* database_manager.py:43-46  save_database returns (and clear_database
\* with it) after the failures failed
Return(failed) ==
    /\ failed # {} => save.faults < MaxFaults
    /\ save' = [save EXCEPT !.pc = "idle", !.failed = failed,
                            !.before = IF failed = {} THEN NoFile ELSE @,
                            !.faults = IF failed = {} THEN @ ELSE @ + 1]
    /\ ret' = [op |-> save.op, name |-> "", value |-> SaveReturns(failed)]

\* database_manager.py:33  open(self.db_path, 'wb'): the file is there and
\* empty, or the open fails
SaveOpen(ok) ==
    /\ save.pc = "open"
    /\ IF ok
          THEN /\ file' = [exists |-> TRUE,
                           readable |-> IF file.exists THEN file.readable ELSE TRUE,
                           bytes |-> <<>>]
               /\ save' = [save EXCEPT !.pc = "dump"]
               /\ UNCHANGED ret
          ELSE /\ Return({"open"})
               /\ UNCHANGED file
    /\ UNCHANGED <<database, constructed, sidecar, backups, now, observed,
                   removed, backup_enabled>>
    /\ UNCHANGED otherVars

\* database_manager.py:34  pickle.dump: the next k tokens reach the file;
\* after the last one the file is closed
SaveWrite(k) ==
    /\ save.pc = "dump"
    /\ k \in 1..(Len(Dump(database)) - Len(file.bytes))
    /\ file' = [file EXCEPT !.bytes = SubSeq(Dump(database), 1, Len(@) + k)]
    /\ save' = [save EXCEPT !.pc = IF Len(file.bytes) + k = Len(Dump(database))
                                      THEN "metadata" ELSE "dump"]
    /\ UNCHANGED <<database, constructed, sidecar, backups, now, ret, observed,
                   removed, backup_enabled>>
    /\ UNCHANGED otherVars

\* database_manager.py:34  a write of pickle.dump fails
SaveWriteFails ==
    /\ save.pc = "dump"
    /\ Return({"dump"})
    /\ UNCHANGED <<database, constructed, file, sidecar, backups, now, observed,
                   removed, backup_enabled>>
    /\ UNCHANGED otherVars

\* database_manager.py:37  _save_metadata writes the JSON file, or fails at
\* its open or after it
SaveMetadata(outcome) ==
    /\ save.pc = "metadata"
    /\ CASE outcome = "ok" ->
               /\ sidecar' = [exists |-> TRUE, readable |-> TRUE,
                              bytes |-> Metadata(database)]
               /\ IF backup_enabled
                     THEN save' = [save EXCEPT !.pc = "backup"] /\ UNCHANGED ret
                     ELSE Return({})
         [] outcome = "open" ->
               /\ UNCHANGED sidecar
               /\ Return({"metadata"})
         [] outcome = "write" ->
               /\ sidecar' = [exists |-> TRUE, readable |-> TRUE, bytes |-> <<>>]
               /\ Return({"metadata"})
    /\ UNCHANGED <<database, constructed, file, backups, now, observed, removed,
                   backup_enabled>>
    /\ UNCHANGED otherVars

\* the backups directory with the file of the timestamp t holding bytes
WithBackup(dir, t, bytes) ==
    [u \in DOMAIN dir \cup {t} |-> IF u = t THEN bytes ELSE dir[u]]

\* database_manager.py:63-75  _create_backup: the backup is written, or the
\* mkdir of the directory raises, or the open or the write of the backup
\* file fails and only a warning is printed
SaveBackup(outcome) ==
    /\ save.pc = "backup"
    /\ CASE outcome = "ok" ->
               /\ backups' = WithBackup(backups, now, Dump(database))
               /\ Return({})
         [] outcome = "mkdir" ->
               /\ UNCHANGED backups
               /\ Return({"mkdir"})
         [] outcome = "open" ->
               /\ UNCHANGED backups
               /\ Return({"backup"})
         [] outcome = "write" ->
               /\ backups' = WithBackup(backups, now, <<>>)
               /\ Return({"backup"})
    /\ UNCHANGED <<database, constructed, file, sidecar, now, observed, removed,
                   backup_enabled>>
    /\ UNCHANGED otherVars

\* database_manager.py:19-28  another process loads the gallery file while
\* or after this one saves
Observe ==
    /\ save.op # "none"
    /\ observed = <<>>
    /\ observed' = [seen |-> LoadDatabase(file),
                    old |-> LoadDatabase(save.before),
                    new |-> database,
                    pc |-> save.pc]
    /\ UNCHANGED <<database, constructed, file, sidecar, backups, now, save, ret,
                   removed, backup_enabled>>
    /\ UNCHANGED otherVars

\* the samples registered in the runs of the store
StoreSamples == {<<"Alice", <<1, 0>>>>, <<"Alice", <<0, 1>>>>, <<"Bob", <<1, 0>>>>}

\* the calls of the store, registering the samples
StoreCalls(samples) ==
    \/ Construct
    \/ \E sample \in samples : AddPerson(sample[1], sample[2])
    \/ \E name \in Names : RemovePerson(name)
    \/ ClearDatabase
    \/ SaveDatabase

\* the steps of a save whose file accesses all succeed
SaveSteps ==
    \/ SaveOpen(TRUE)
    \/ \E k \in 1..Len(Dump(database)) : SaveWrite(k)
    \/ SaveMetadata("ok")
    \/ SaveBackup("ok")

\* the steps of a save at which a file access fails
SaveFaults ==
    \/ SaveOpen(FALSE)
    \/ SaveWriteFails
    \/ \E outcome \in {"open", "write"} : SaveMetadata(outcome)
    \/ \E outcome \in {"mkdir", "open", "write"} : SaveBackup(outcome)

\* a store that finds no gallery file, with backups or without
InitSaves ==
    /\ TrackerInit
    /\ IouIdle
    /\ MatcherIdle
    /\ database = <<>>
    /\ constructed = "no"
    /\ file = NoFile
    /\ sidecar = NoFile
    /\ backups = <<>>
    /\ now = 0
    /\ save = SaveIdle
    /\ ret = NoCall
    /\ observed = <<>>
    /\ removed = {}
    /\ registration = NoRegistration
    /\ backup_enabled \in BOOLEAN

\* registrations, removals and saves without failures
NextSaves == StoreCalls(StoreSamples) \/ SaveSteps

SpecSaves == InitSaves /\ [][NextSaves]_vars

\* the gallery file a process may find: none, one that is no pickle, one it
\* may not read, one that holds Alice
InitialFiles ==
    {NoFile,
     [exists |-> TRUE, readable |-> TRUE, bytes |-> <<Mark("JUNK")>>],
     [exists |-> TRUE, readable |-> FALSE,
      bytes |-> Dump(AddPersonTo(<<>>, "Alice", <<1, 0>>, 0))],
     [exists |-> TRUE, readable |-> TRUE,
      bytes |-> Dump(AddPersonTo(<<>>, "Alice", <<1, 0>>, 0))]}

InitStore ==
    /\ TrackerInit
    /\ IouIdle
    /\ MatcherIdle
    /\ database = <<>>
    /\ constructed = "no"
    /\ file \in InitialFiles
    /\ sidecar = NoFile
    /\ backups = <<>>
    /\ now = 0
    /\ save = SaveIdle
    /\ ret = NoCall
    /\ observed = <<>>
    /\ removed = {}
    /\ registration = NoRegistration
    /\ backup_enabled \in BOOLEAN

\* the samples registered in the runs with failures
FaultSamples == {<<"Alice", <<1, 0>>>>}

\* any gallery file at the start, saves with up to MaxFaults failures
NextStore == StoreCalls(FaultSamples) \/ SaveSteps \/ SaveFaults

SpecStore == InitStore /\ [][NextStore]_vars

\* database_manager.py:68  datetime.now() read to the second: the clock moves
\* on by a second, up to MaxClock
MaxClock == 2

Tick ==
    /\ now < MaxClock
    /\ now' = now + 1
    /\ UNCHANGED <<database, constructed, file, sidecar, backups, save, ret,
                   observed, removed, backup_enabled>>
    /\ UNCHANGED otherVars

\* a store with backups enabled that registers and saves without failures
\* while the seconds pass
InitBackups == InitSaves /\ backup_enabled

NextBackups ==
    \/ Construct
    \/ \E sample \in FaultSamples : AddPerson(sample[1], sample[2])
    \/ SaveDatabase
    \/ SaveSteps
    \/ Tick

SpecBackups == InitBackups /\ [][NextBackups]_vars

\* a process that finds Alice's gallery file, registers and saves, with a
\* failing write at most, while another process loads the file once
InitRace ==
    /\ InitStore
    /\ file.exists /\ file.readable /\ Load(file.bytes).ok
    /\ ~backup_enabled

NextRace ==
    \/ Construct
    \/ \E sample \in FaultSamples : AddPerson(sample[1], sample[2])
    \/ SaveDatabase
    \/ SaveOpen(TRUE)
    \/ \E k \in 1..Len(Dump(database)) : SaveWrite(k)
    \/ SaveWriteFails
    \/ SaveMetadata("ok")
    \/ Observe

SpecRace == InitRace /\ [][NextRace]_vars

(***************************************************************************)
(* match_face on a gallery with samples.                                   *)
(***************************************************************************)
RatioEqual(r, s) == r[1] * s[2] = s[1] * r[2]

NumEqual(x, y) == RatioEqual(x[1], y[1]) /\ RatioEqual(x[2], y[2])

\* the distances of the last query to the samples of the gallery
C11_Distances ==
    CalculateDistances(ret.encoding, GetAllEncodings(database).encodings)

\* sample i is at the smallest distance from the last query
C11_AtMinimum(i) ==
    \A j \in DOMAIN C11_Distances : ~RatioLess(C11_Distances[j], C11_Distances[i])

\* clamp(1 - d/2, 0, 1)
C11_Clamp(d) ==
    LET raw == <<<<1, 1>>, <<0 - d[1], 2 * d[2]>>>>
    IN  IF NumLess(raw, NumZero) THEN NumZero
        ELSE IF NumLess(NumOne, raw) THEN NumOne
        ELSE raw

\* C11: on a gallery with samples, match_face returns the name of a sample
\* at the smallest distance d and clamp(1 - d/2, 0, 1) when d <= tolerance
\* (d equal to the tolerance matches), and (None, 0.0) when d > tolerance.
C11_MatchFaceNearestWithinTolerance ==
    (ret.op = "match_face" /\ database # <<>>) =>
       \A i \in DOMAIN C11_Distances :
          C11_AtMinimum(i) =>
             IF RatioGreater(C11_Distances[i], tolerance)
                THEN ret.out = NoMatch
                ELSE /\ ret.out.raised = ""
                     /\ ret.out.name # None
                     /\ \E k \in DOMAIN C11_Distances :
                           /\ C11_AtMinimum(k)
                           /\ GetAllEncodings(database).names[k] = ret.out.name[1]
                     /\ NumEqual(ret.out.confidence, C11_Clamp(C11_Distances[i]))

\* two people with one sample each, the second one nearer to the query and
\* at a distance equal to the tolerance of a quarter: the second is returned
C11_Witness ==
    /\ ret.op = "match_face"
    /\ Len(database) = 2
    /\ tolerance = <<1, 4>>
    /\ RatioEqual(C11_Distances[2], tolerance)
    /\ RatioLess(C11_Distances[2], C11_Distances[1])
    /\ ret.out.name = Some(database[2].name)
    /\ NumLess(ret.out.confidence, NumOne)

(***************************************************************************)
(* The matcher on a gallery without samples.                               *)
(***************************************************************************)
\* C12: with no sample in the gallery match_face and match_with_voting
\* return (None, 0.0) and get_all_matches returns the empty list, for every
\* query, and none of them raises.
C12_EmptyGalleryNoMatch ==
    GetAllEncodings(database).encodings = <<>> =>
       /\ ret.op \in {"match_face", "match_with_voting"} =>
             /\ ret.out.raised = ""
             /\ ret.out.name = None
             /\ ret.out.confidence = NumZero
       /\ ret.op = "get_all_matches" => ret.out = [matches |-> <<>>, raised |-> ""]

\* match_face answered on a gallery that removals had emptied
C12_Witness ==
    /\ database = <<>>
    /\ removed # {}
    /\ ret.op = "match_face"
    /\ ret.out = NoMatch

(***************************************************************************)
(* A query that is a sample of the gallery.                                *)
(***************************************************************************)
\* C13: the distance of an encoding to itself is 0, and when the query is a
\* sample of the gallery (tolerance >= 0) match_face returns a name that owns
\* a sample at distance 0, with confidence 1.0.
C13_OwnSampleMatchesFully ==
    /\ \A v \in Encodings : CalculateDistance(v, v)[1] = 0
    /\ (/\ ret.op = "match_face"
        /\ \E i \in DOMAIN C11_Distances :
              GetAllEncodings(database).encodings[i] = ret.encoding) =>
          /\ ret.out.raised = ""
          /\ ret.out.name # None
          /\ \E k \in DOMAIN C11_Distances :
                /\ GetAllEncodings(database).names[k] = ret.out.name[1]
                /\ C11_Distances[k][1] = 0
          /\ ret.out.confidence = NumOne

\* the query is the second sample of the gallery and not the first, and the
\* tolerance is 0
C13_Witness ==
    /\ ret.op = "match_face"
    /\ tolerance = <<0, 1>>
    /\ Len(C11_Distances) = 2
    /\ GetAllEncodings(database).encodings[2] = ret.encoding
    /\ GetAllEncodings(database).encodings[1] # ret.encoding
    /\ ret.out.name = Some(GetAllEncodings(database).names[2])
    /\ ret.encoding # <<0, 0>>

(***************************************************************************)
(* remove_person and the matcher.                                          *)
(***************************************************************************)
C20_NamesOf(db) == {db[i].name : i \in DOMAIN db}

\* C20: remove_person(name) returns True exactly when the name was in the
\* gallery; after it the name is absent and every other identity is as it
\* was, and match_face returns no name that was removed and not added again.
C20_RemovedNameGone ==
    [][/\ ret'.op = "remove_person" =>
             /\ ret'.value = (ret'.name \in C20_NamesOf(database))
             /\ ret'.name \notin C20_NamesOf(database')
             /\ database' = SelectSeq(database, LAMBDA item : item.name # ret'.name)
       /\ (ret'.op = "match_face" /\ ret'.out.name # None) =>
             /\ ret'.out.name[1] \in C20_NamesOf(database')
             /\ ret'.out.name[1] \notin removed']_vars

\* Alice was removed and not added again, Bob is still there, and match_face
\* answers a query with Bob
C20_Witness ==
    /\ removed = {"Alice"}
    /\ C20_NamesOf(database) = {"Bob"}
    /\ ret.op = "match_face"
    /\ ret.out.name = Some("Bob")

(***************************************************************************)
(* Saving and loading the gallery.                                         *)
(***************************************************************************)
C14_Saved == ret.op \in {"save_database", "clear_database"} /\ ret.value

\* C14: after a save_database that returned True, loading the file in a new
\* FaceDatabase gives the gallery that was saved: the same names in the same
\* order and for each name the same samples in the same order.
C14_SaveThenLoadIsIdentity ==
    /\ []((save.pc = "idle" /\ C14_Saved) =>
             LoadDatabase(file) = Loaded(database, FALSE, FALSE))
    /\ [][(C14_Saved /\ ret'.op = "__init__") =>
             /\ database' = database
             /\ constructed' = "ok"]_vars

\* a FaceDatabase was built from the file of a save that wrote Alice with the
\* sample (0, 1) before the sample (1, 0)
C14_Witness ==
    /\ ret.op = "__init__"
    /\ ret.saved
    /\ Len(database) = 1
    /\ database[1].name = "Alice"
    /\ database[1].encodings = <<<<0, 1>>, <<1, 0>>>>

\* C15: a load that runs at any point during a save, or after a save that
\* failed part-way, sees the gallery of the file as it was before the save
\* or the gallery being saved, never anything else.
C15_LoadSeesOldOrNew ==
    observed # <<>> =>
       \/ observed.seen.database = observed.old.database
       \/ observed.seen.database = observed.new

\* the failures that make save_database return False
C16_Reported == {"open", "dump", "metadata", "mkdir"}

C16_SaveReturned == save.pc = "idle" /\ ret.op \in {"save_database", "clear_database"}

\* C16 as stated: when any write of save_database fails the call returns
\* False; the gallery in memory is untouched by the save; a save that returns
\* True has written the full gallery.
C16_Original ==
    C16_SaveReturned =>
       /\ save.failed # {} => ~ret.value
       /\ ret.value => Load(file.bytes) = [ok |-> TRUE, database |-> database]

\* C16, amended: save_database returns False exactly when the open or a write
\* of the gallery file, the write of the metadata file or the mkdir of the
\* backups directory failed; a failed write of the backup file only prints a
\* warning and the call returns True.  No step of a save changes the gallery
\* in memory, and a save that returns True has written the full gallery.
C16_SaveFailureReported ==
    /\ [](C16_SaveReturned =>
             /\ ret.value = (save.failed \cap C16_Reported = {})
             /\ ret.value => Load(file.bytes) = [ok |-> TRUE, database |-> database])
    /\ [][save.pc # "idle" => database' = database]_vars

\* the write of the backup file failed and save_database returned True for
\* a gallery with samples
C16_Witness ==
    /\ C16_SaveReturned
    /\ ret.op = "save_database"
    /\ save.failed = {"backup"}
    /\ ret.value
    /\ database # <<>>

\* the bytes are not a complete pickle
C17_Corrupt(bytes) ==
    \/ bytes = <<>>
    \/ bytes[1].op # "PROTO"
    \/ bytes[Len(bytes)].op # "STOP"

\* C17: constructing a FaceDatabase never raises because of the gallery
\* file: with no file the gallery is empty, with a corrupt or unreadable file
\* the warning is printed and the gallery is empty, and add_person then works
\* on that empty gallery.
C17_ConstructNeverRaises ==
    /\ [](/\ constructed # "raised"
          /\ (ret.op = "__init__" /\ save.pc = "idle") =>
                /\ ret.value
                /\ ~file.exists => (database = <<>> /\ constructed = "ok")
                /\ (file.exists /\ (~file.readable \/ C17_Corrupt(file.bytes))) =>
                      (database = <<>> /\ constructed = "warned"))
    /\ [][(ret.op = "__init__" /\ constructed = "warned" /\ ret'.op = "add_person") =>
             /\ Len(database') = 1
             /\ database'[1].name = ret'.name
             /\ database'[1].encodings = <<ret'.encoding>>]_vars

\* a FaceDatabase built with the warning has registered a sample and saved
\* it with success
C17_Witness ==
    /\ constructed = "warned"
    /\ ret.op = "save_database"
    /\ ret.value
    /\ database # <<>>
    /\ Load(file.bytes) = [ok |-> TRUE, database |-> database]

(***************************************************************************)
(* The gallery under add_person, remove_person and clear_database.         *)
(***************************************************************************)
C18_WellFormed(db) ==
    /\ \A i \in DOMAIN db : Len(db[i].encodings) >= 1
    /\ \A i \in DOMAIN db, j \in DOMAIN db : db[i].name = db[j].name => i = j

\* C18: from an empty gallery, after any add_person, remove_person and
\* clear_database calls every name of the gallery in memory, and of every
\* complete gallery file, has at least one sample and appears once.
C18_NamesUniqueWithSamples ==
    /\ C18_WellFormed(database)
    /\ Load(file.bytes).ok => C18_WellFormed(Load(file.bytes).database)

\* a name was removed, another was added, and the gallery was saved
C18_Witness ==
    /\ removed # {}
    /\ database # <<>>
    /\ C14_Saved
    /\ Load(file.bytes) = [ok |-> TRUE, database |-> database]

\* C19: add_person(name, vector) appends the vector at the end of the name's
\* samples, creating the identity with that one sample when the name was
\* absent; the earlier samples of the name keep their order, every other
\* identity is unchanged, and the call returns True.
C19_AddAppends ==
    [][(ret'.op = "add_person" /\ database' # database /\ save' = save) =>
          LET i == IndexOfName(database, ret'.name)
          IN  /\ ret'.value
              /\ IF i = 0
                    THEN /\ Len(database') = Len(database) + 1
                         /\ database'[Len(database')].name = ret'.name
                         /\ database'[Len(database')].encodings = <<ret'.encoding>>
                         /\ \A k \in DOMAIN database : database'[k] = database[k]
                    ELSE /\ Len(database') = Len(database)
                         /\ database'[i].name = ret'.name
                         /\ database'[i].encodings =
                               Append(database[i].encodings, ret'.encoding)
                         /\ \A k \in DOMAIN database \ {i} :
                               database'[k] = database[k]]_vars

\* Alice has just been given a second sample that differs from her first
C19_Witness ==
    /\ ret.op = "add_person"
    /\ ret.name = "Alice"
    /\ Len(database) = 1
    /\ Len(database[1].encodings) = 2
    /\ database[1].encodings[2] = ret.encoding
    /\ database[1].encodings[1] # ret.encoding

(***************************************************************************)
(* Tracks that hold votes.                                                 *)
(***************************************************************************)
\* detection i of the call was associated with a track that held a vote
\* before the call
C25_OnVotedTrack(i) == ~fresh'[i] /\ tracks[assoc'[i]].name_votes # <<>>

\* a track that stays in the table keeps at least one vote once it has one
C25_VotesStay ==
    \A id \in DOMAIN tracks \cap DOMAIN tracks' :
        tracks[id].name_votes # <<>> => tracks'[id].name_votes # <<>>

\* C25 as stated: once a track holds a vote, every later emission for it
\* carries a voted name with is_known = True, also when the detection is
\* Unknown, for as long as the track is in the table.
C25_Original ==
    [][/\ C25_VotesStay
       /\ \A i \in DOMAIN results' :
             C25_OnVotedTrack(i) =>
                /\ results'[i].name \in C9_Names(tracks'[assoc'[i]].name_votes)
                /\ results'[i].is_known]_vars

\* C25, amended: once a track holds a vote, every later emission for it
\* carries a voted name, also when the detection is Unknown, for as long as
\* the track is in the table; is_known is True unless that voted name is the
\* string "Unknown", in which case it is False.
C25_VotedTrackEmitsVotedName ==
    [][/\ C25_VotesStay
       /\ \A i \in DOMAIN results' :
             C25_OnVotedTrack(i) =>
                /\ results'[i].name \in C9_Names(tracks'[assoc'[i]].name_votes)
                /\ results'[i].is_known = (results'[i].name # "Unknown")]_vars

\* an Unknown detection was associated with a track holding a vote for Alice
\* and Alice was emitted as known; and another one went to a track whose
\* vote is for the name "Unknown"
C25_Witness ==
    \E i \in DOMAIN results, j \in DOMAIN results :
        /\ ~fresh[i]
        /\ dets[i].name = "Unknown" /\ ~dets[i].is_known
        /\ results[i].name = "Alice" /\ results[i].is_known
        /\ ~fresh[j]
        /\ dets[j].name = "Unknown" /\ ~dets[j].is_known
        /\ C9_Names(tracks[assoc[j]].name_votes) = {"Unknown"}
        /\ results[j].name = "Unknown" /\ ~results[j].is_known

(***************************************************************************)
(* Eviction comes before association.                                      *)
(***************************************************************************)
\* the detections of the call whose box has IoU 1 with the box of track id
C26_OnTopOf(id) ==
    {i \in DOMAIN dets' :
        C4_RatioEqual(CalculateIou(dets'[i].bbox, tracks[id].bbox), <<1, 1>>)}

\* every name of the track before the call still has its queue after it,
\* with the same votes unless detection i has just voted for that name
C26_KeepsVotes(id, i) ==
    /\ Len(tracks'[id].name_votes) >= Len(tracks[id].name_votes)
    /\ \A k \in DOMAIN tracks[id].name_votes :
          /\ tracks'[id].name_votes[k].name = tracks[id].name_votes[k].name
          /\ \/ tracks'[id].name_votes[k].votes = tracks[id].name_votes[k].votes
             \/ /\ dets'[i].is_known
                /\ dets'[i].name = tracks[id].name_votes[k].name

\* C26: a track that went unmatched in 10 updates in a row is evicted at
\* the start of the 11th although that frame has a detection with IoU 1
\* against its box, and that detection starts a track with a new id and only
\* its own vote; a track detected again after at most 9 missed updates keeps
\* its id and its votes.
C26_EvictionBeforeAssociation ==
    [][\A id \in DOMAIN tracks :
         /\ misses[id] >= max_age =>
               /\ id \notin DOMAIN tracks'
               /\ \A i \in C26_OnTopOf(id) :
                     /\ fresh'[i]
                     /\ assoc'[i] >= next_id
                     /\ assoc'[i] \notin issued
                     /\ tracks'[assoc'[i]].name_votes =
                           IF dets'[i].name # "" /\ dets'[i].is_known
                              THEN <<[name |-> dets'[i].name,
                                      votes |-> <<dets'[i].confidence>>]>>
                              ELSE <<>>
         /\ misses[id] < max_age =>
               /\ id \in DOMAIN tracks'
               /\ \A i \in C26_OnTopOf(id) :
                     (Len(dets') = 1 /\ Cardinality(DOMAIN tracks) = 1) =>
                        /\ ~fresh'[i]
                        /\ assoc'[i] = id
                        /\ C26_KeepsVotes(id, i)]_vars

\* the first track has just been evicted on its 11th update without a
\* match, and the unrecognised face at its place in that frame started the
\* next track, which holds no vote and is emitted as Unknown
C26_Witness ==
    /\ Len(dets) = 1
    /\ dets[1] = Unrecognised(BoxA)
    /\ fresh[1]
    /\ assoc[1] = 1
    /\ tracks[1].name_votes = <<>>
    /\ misses[0] = MissCap
    /\ 0 \notin DOMAIN tracks
    /\ results[1].name = "Unknown"

(***************************************************************************)
(* Votes do not expire.                                                    *)
(***************************************************************************)
\* a queue of a track that stays in the table keeps its place and its name,
\* and its votes change only in a call where a detection associated with the
\* track votes for that name
C27_QueuesChangeByOwnVotes ==
    \A id \in DOMAIN tracks \cap DOMAIN tracks' :
       \A k \in DOMAIN tracks[id].name_votes :
          /\ k \in DOMAIN tracks'[id].name_votes
          /\ tracks'[id].name_votes[k].name = tracks[id].name_votes[k].name
          /\ tracks'[id].name_votes[k].votes # tracks[id].name_votes[k].votes =>
                \E i \in DOMAIN dets' :
                   /\ assoc'[i] = id
                   /\ dets'[i].is_known
                   /\ dets'[i].name = tracks[id].name_votes[k].name

\* C27 as stated: a name's queue changes only by votes for that name and
\* disappears only with the track; once a track holds 5 votes for a name A,
\* another name B is emitted for it only when B also holds 5 votes and B's
\* mean confidence is strictly higher than A's.
C27_Original ==
    /\ [][C27_QueuesChangeByOwnVotes]_vars
    /\ [](\A i \in DOMAIN results :
            ~fresh[i] =>
               LET name_votes == tracks[assoc[i]].name_votes
               IN  \A a \in DOMAIN name_votes, b \in DOMAIN name_votes :
                      (/\ Len(name_votes[a].votes) = history_size
                       /\ name_votes[b].name = results[i].name
                       /\ a # b) =>
                         /\ Len(name_votes[b].votes) = history_size
                         /\ FLess(Mean(name_votes[a].votes), Mean(name_votes[b].votes)))

\* C27, amended: a name's queue changes only by votes for that name and
\* disappears only with the track; once a track holds 5 votes for a name A,
\* another name B is emitted for it only when B also holds 5 votes and either
\* B's mean confidence is strictly higher than A's, or the two means are
\* equal and B got its first vote on the track before A did.
C27_VotesNeverExpire ==
    /\ [][C27_QueuesChangeByOwnVotes]_vars
    /\ [](\A i \in DOMAIN results :
            ~fresh[i] =>
               LET name_votes == tracks[assoc[i]].name_votes
               IN  \A a \in DOMAIN name_votes, b \in DOMAIN name_votes :
                      (/\ Len(name_votes[a].votes) = history_size
                       /\ name_votes[b].name = results[i].name
                       /\ a # b) =>
                         /\ Len(name_votes[b].votes) = history_size
                         /\ \/ FLess(Mean(name_votes[a].votes), Mean(name_votes[b].votes))
                            \/ /\ Mean(name_votes[a].votes) = Mean(name_votes[b].votes)
                               /\ b < a)

\* Bob voted first on the track, Alice then filled her queue, and Bob has
\* just filled his with the same confidences: Bob is emitted on equal means
C27_Witness ==
    /\ Len(results) = 1
    /\ ~fresh[1]
    /\ dets[1].name = "Bob" /\ dets[1].is_known
    /\ Len(tracks[assoc[1]].name_votes) = 2
    /\ tracks[assoc[1]].name_votes[1].name = "Bob"
    /\ tracks[assoc[1]].name_votes[2].name = "Alice"
    /\ Len(tracks[assoc[1]].name_votes[1].votes) = history_size
    /\ tracks[assoc[1]].name_votes[2].votes = tracks[assoc[1]].name_votes[1].votes
    /\ results[1].name = "Bob"

(***************************************************************************)
(* The shape of the value update returns.                                  *)
(***************************************************************************)
\* C28: update returns one tuple per detection, in the order of the
\* detections, each with the bbox of its detection; the detections of a frame
\* go to pairwise distinct tracks; and the table after the call holds at most
\* as many tracks as survived the aging plus the number of detections.
C28_OneResultPerDetection ==
    /\ [](/\ Len(results) = Len(dets)
          /\ Len(assoc) = Len(dets)
          /\ \A i \in DOMAIN dets : results[i].bbox = dets[i].bbox
          /\ \A i \in DOMAIN dets : assoc[i] \in DOMAIN tracks
          /\ \A i \in DOMAIN dets : tracks[assoc[i]].bbox = dets[i].bbox
          /\ Cardinality(Range(assoc)) = Len(dets))
    /\ [][Cardinality(DOMAIN tracks') <= Cardinality(C4_Survivors) + Len(dets')]_vars

\* a frame of two detections with different boxes and labels: the first was
\* matched and emitted with its track's voted name, the second got a new
\* track, and a third track was left without a match
C28_Witness ==
    /\ Len(dets) = 2
    /\ dets[1].bbox # dets[2].bbox
    /\ ~fresh[1]
    /\ fresh[2]
    /\ results[1].bbox = dets[1].bbox
    /\ results[2].bbox = dets[2].bbox
    /\ results[1].name = "Alice"
    /\ results[2].name = "Unknown"
    /\ Cardinality(DOMAIN tracks) = 3

(***************************************************************************)
(* Two trackers fed the same frames.                                       *)
(***************************************************************************)
\* the key (len, mean) of two queues is the same
C29_SameKey(x, y) ==
    Len(x.votes) = Len(y.votes) /\ Mean(x.votes) = Mean(y.votes)

\* among the unclaimed surviving tracks whose IoU with detection i equals
\* that of the track it was associated with, that track has the lowest id
C29_LowestIdOnEqualIou ==
    \A i \in DOMAIN dets' :
       ~fresh'[i] =>
          LET claimed == {assoc'[j] : j \in 1..(i - 1)}
              iou(id) == CalculateIou(dets'[i].bbox, tracks[id].bbox)
          IN  \A id \in C4_Survivors \ claimed :
                 C4_RatioEqual(iou(id), iou(assoc'[i])) => assoc'[i] <= id

\* among the names of the track whose key equals that of the emitted name,
\* the emitted name is the one that got its first vote earliest
C29_FirstVotedOnEqualKey ==
    \A i \in DOMAIN results' :
       ~fresh'[i] =>
          LET name_votes == tracks'[assoc'[i]].name_votes
          IN  \A k \in DOMAIN name_votes, j \in DOMAIN name_votes :
                 (/\ name_votes[k].name = results'[i].name
                  /\ C29_SameKey(name_votes[j], name_votes[k])) => k <= j

\* C29: two trackers fed the same sequence of detection lists return the
\* same values and hold the same track tables; among tracks of equal
\* qualifying IoU the one of lowest id is chosen, and among names of equal
\* (vote count, mean confidence) the one that was voted for first is emitted.
C29_Deterministic ==
    /\ [](~twin.pending => /\ twin.tracks = tracks
                            /\ twin.next_id = next_id
                            /\ twin.results = results)
    /\ [][twin'.pending =>
             C29_LowestIdOnEqualIou /\ C29_FirstVotedOnEqualKey]_vars

\* both trackers have run an update in which the one detection had IoU 1
\* with two tracks and went to the lower id, whose two names then had one
\* vote of the same confidence each, and the name voted first was emitted
C29_Witness ==
    /\ ~twin.pending
    /\ twin.results = results
    /\ Len(dets) = 1
    /\ ~fresh[1]
    /\ \E other \in DOMAIN tracks :
          /\ other > assoc[1]
          /\ tracks[other].bbox = dets[1].bbox
          /\ tracks[other].age = 1
    /\ Len(tracks[assoc[1]].name_votes) = 2
    /\ C29_SameKey(tracks[assoc[1]].name_votes[1], tracks[assoc[1]].name_votes[2])
    /\ dets[1].name = tracks[assoc[1]].name_votes[2].name
    /\ results[1].name = tracks[assoc[1]].name_votes[1].name

(***************************************************************************)
(* match_with_voting.                                                      *)
(***************************************************************************)
\* T holds top_k samples of smallest distance from the last query (all of
\* them when the gallery has fewer)
C24_TopK(T) ==
    /\ Cardinality(T) = Min2(ret.top_k, Len(C11_Distances))
    /\ \A i \in T, j \in DOMAIN C11_Distances \ T :
          ~RatioLess(C11_Distances[j], C11_Distances[i])

\* the mean of clamp(1 - d/2, 0, 1) over the samples of V that belong to name
C24_Average(V, name) ==
    LET own == SelectSeq([i \in DOMAIN C11_Distances |-> i],
                         LAMBDA i : i \in V /\ GetAllEncodings(database).names[i] = name)
    IN  NumMean([k \in DOMAIN own |-> C11_Clamp(C11_Distances[own[k]])])

\* C24: match_with_voting(vector, top_k) takes the top_k samples of smallest
\* distance, drops those with distance > tolerance, groups the rest by name
\* and averages each group's confidences clamp(1 - d/2, 0, 1); it returns a
\* name of highest average with that average, and (None, 0.0) when no sample
\* of the top_k is within tolerance.
C24_VotingPicksHighestAverage ==
    (ret.op = "match_with_voting" /\ database # <<>>) =>
       \E T \in SUBSET DOMAIN C11_Distances :
          /\ C24_TopK(T)
          /\ LET V == {i \in T : ~RatioGreater(C11_Distances[i], tolerance)}
             IN  IF V = {}
                    THEN ret.out = NoMatch
                    ELSE /\ ret.out.raised = ""
                         /\ ret.out.name # None
                         /\ \E i \in V :
                               GetAllEncodings(database).names[i] = ret.out.name[1]
                         /\ NumEqual(ret.out.confidence,
                                     C24_Average(V, ret.out.name[1]))
                         /\ \A j \in V :
                               ~NumLess(ret.out.confidence,
                                        C24_Average(V, GetAllEncodings(database).names[j]))

\* the nearest sample and the farthest one, both within tolerance, belong to
\* one person and the sample between them to another, who is returned for
\* the higher average with a confidence below 1
C24_Witness ==
    /\ ret.op = "match_with_voting"
    /\ ret.top_k = 3
    /\ Len(C11_Distances) = 3
    /\ GetAllEncodings(database).names[1] = GetAllEncodings(database).names[2]
    /\ GetAllEncodings(database).names[3] # GetAllEncodings(database).names[1]
    /\ RatioLess(C11_Distances[1], C11_Distances[3])
    /\ RatioLess(C11_Distances[3], C11_Distances[2])
    /\ ~RatioGreater(C11_Distances[2], tolerance)
    /\ ret.out.name = Some(GetAllEncodings(database).names[3])
    /\ NumLess(ret.out.confidence, NumOne)

(***************************************************************************)
(* Vectors of different dimensions.                                        *)
(***************************************************************************)
\* some sample of the gallery has another dimension than the last query
C23_Mismatch ==
    \E i \in DOMAIN GetAllEncodings(database).encodings :
        Len(GetAllEncodings(database).encodings[i]) # Len(ret.encoding)

\* C23: match_face, match_with_voting and get_all_matches end with an error
\* whenever the query's dimension differs from that of a stored sample; they
\* do not compute a distance and return a result.
C23_MismatchRejected ==
    (ret.op \in {"match_face", "match_with_voting", "get_all_matches"} /\ C23_Mismatch)
       => ret.out.raised # ""

(***************************************************************************)
(* Backups.                                                                *)
(***************************************************************************)
\* C22: with backups enabled, every save_database that returns True has
\* written one new backup file, holding the gallery as saved, under a name
\* that sorts after those of all earlier backups, and has left the earlier
\* backups and the gallery file it had just written as they were; so n
\* successful saves leave n backup files.
C22_EverySaveAddsBackup ==
    [][(save.pc = "backup" /\ save'.pc = "idle" /\ ret'.value) =>
          \E t \in DOMAIN backups' \ DOMAIN backups :
             /\ DOMAIN backups' = DOMAIN backups \cup {t}
             /\ \A u \in DOMAIN backups : u < t /\ backups'[u] = backups[u]
             /\ Load(backups'[t]) = [ok |-> TRUE, database |-> database]
             /\ file' = file]_vars

(***************************************************************************)
(* Registration: scripts/register_face.py.  A call collects face vectors   *)
(* in its local list encodings, one image or camera frame at a step, and   *)
(* at its end either adds them all to the gallery and saves it, or adds    *)
(* none.  registration holds the call: where it is (pc), its name, the     *)
(* list encodings, for each collected vector whether its picture reached   *)
(* quality_threshold (passed), the pictures handled (seen), the value it   *)
(* returned, and the gallery and file as they were when it was called.     *)
(***************************************************************************)

\* scripts/register_face.py:24  registration.min_samples as configured by
\* default
min_samples == 5

\* the images or camera frames one call handles
MaxImages == 6

\* scripts/register_face.py:39-59  what one image of image_paths comes to: it
\* loads or raises, encode_face finds a vector or returns None, assess_quality
\* reaches quality_threshold or not
Images ==
    {[raises |-> FALSE, encoding |-> <<1, 0>>, quality_ok |-> TRUE],
     [raises |-> FALSE, encoding |-> <<0, 1>>, quality_ok |-> TRUE],
     [raises |-> FALSE, encoding |-> <<1, 1>>, quality_ok |-> FALSE],
     [raises |-> FALSE, encoding |-> None, quality_ok |-> FALSE],
     [raises |-> TRUE, encoding |-> None, quality_ok |-> FALSE]}

\* scripts/register_face.py:102-172  what one camera frame comes to: the
\* vector encode_face finds or None, whether its quality reaches
\* quality_threshold, whether auto_capture_interval has passed since the last
\* automatic capture, and the key waitKey reports ("" for none)
Frames ==
    {[encoding |-> <<1, 0>>, quality_ok |-> TRUE, elapsed |-> TRUE, key |-> ""],
     [encoding |-> <<0, 1>>, quality_ok |-> TRUE, elapsed |-> TRUE, key |-> ""],
     [encoding |-> <<0, 1>>, quality_ok |-> TRUE, elapsed |-> FALSE, key |-> ""],
     [encoding |-> <<0, 1>>, quality_ok |-> TRUE, elapsed |-> TRUE, key |-> "c"],
     [encoding |-> <<1, 1>>, quality_ok |-> FALSE, elapsed |-> TRUE, key |-> ""],
     [encoding |-> <<1, 1>>, quality_ok |-> FALSE, elapsed |-> TRUE, key |-> "c"],
     [encoding |-> None, quality_ok |-> FALSE, elapsed |-> TRUE, key |-> "c"],
     [encoding |-> <<1, 0>>, quality_ok |-> TRUE, elapsed |-> TRUE, key |-> "q"]}

\* scripts/register_face.py:45-53  the image is collected: it loaded, a face
\* was encoded and the quality reaches the threshold
ImageCollected(image) ==
    ~image.raises /\ image.encoding # None /\ image.quality_ok

\* scripts/register_face.py:130-134  the frame is captured automatically
AutoCaptured(frame) ==
    frame.encoding # None /\ frame.quality_ok /\ frame.elapsed

\* scripts/register_face.py:170-172  the frame is captured by the key 'c'
ForceCaptured(frame) ==
    frame.key = "c" /\ frame.encoding # None

\* scripts/register_face.py:64 and 179  len(encodings) >= self.min_samples
EnoughSamples(encodings) == Len(encodings) >= min_samples

\* scripts/register_face.py:65-66 and 180-181  add_person for every encoding
\* of the list, first to last
RECURSIVE AddAll(_, _, _, _)
AddAll(db, name, encodings, t) ==
    IF encodings = <<>> THEN db
    ELSE AddAll(AddPersonTo(db, name, Head(encodings), t), name,
                Tail(encodings), t)

\* the loop of lines 65-66 run from the last encoding to the first
CommitSamplesReversed(db, name, encodings, t) ==
    AddAll(db, name, Reversed(encodings), t)

\* scripts/register_face.py:65-66 and 180-181  the gallery after the loop
CommitSamples(db, name, encodings, t) == AddAll(db, name, encodings, t)

\* scripts/register_face.py:28-37 and 76-97  a call begins with an empty list
Begin(op, name) ==
    [pc |-> op, op |-> op, name |-> name, encodings |-> <<>>, passed |-> <<>>,
     seen |-> 0, value |-> FALSE,
     before |-> [database |-> database, file |-> file]]

\* scripts/register_face.py:28-37  register_from_images(name, image_paths) is
\* called on a gallery of fewer than MaxSamples samples
RegisterFromImages(name) ==
    /\ constructed \in {"ok", "warned"}
    /\ save.pc = "idle"
    /\ registration.pc = "idle"
    /\ TotalSamples(database) < MaxSamples
    /\ registration' = Begin("register_from_images", name)
    /\ UNCHANGED storeVars
    /\ UNCHANGED <<matcherVars, trackerVars, iouA, iouB, iouOut>>

\* scripts/register_face.py:39-61  one turn of the loop over image_paths
ProcessImage(image) ==
    /\ registration.pc = "register_from_images"
    /\ registration.seen < MaxImages
    /\ registration' =
          IF ImageCollected(image)
             THEN [registration EXCEPT
                      !.encodings = Append(@, image.encoding),
                      !.passed = Append(@, image.quality_ok),
                      !.seen = @ + 1]
             ELSE [registration EXCEPT !.seen = @ + 1]
    /\ UNCHANGED storeVars
    /\ UNCHANGED <<matcherVars, trackerVars, iouA, iouB, iouOut>>

\* scripts/register_face.py:64-74 and 179-188  the end of both calls: with
\* enough encodings add each to the gallery, call save_database and return
\* True whatever the save returns, otherwise return False
Finish ==
    IF EnoughSamples(registration.encodings)
       THEN /\ database' = CommitSamples(database, registration.name,
                                         registration.encodings, now)
            /\ save' = [save EXCEPT !.pc = "open", !.op = "save_database",
                                    !.failed = {}, !.before = file]
            /\ removed' = removed \ {registration.name}
            /\ registration' = [registration EXCEPT !.pc = "idle",
                                                    !.value = TRUE]
            /\ UNCHANGED <<constructed, file, sidecar, backups, now, ret,
                           observed, backup_enabled>>
       ELSE /\ registration' = [registration EXCEPT !.pc = "idle",
                                                    !.value = FALSE]
            /\ UNCHANGED storeVars

\* scripts/register_face.py:39 and 64-74  image_paths is exhausted
FinishImages ==
    /\ registration.pc = "register_from_images"
    /\ Finish
    /\ UNCHANGED <<matcherVars, trackerVars, iouA, iouB, iouOut>>

\* scripts/register_face.py:76-97  register_from_camera(name) is called on a
\* gallery of fewer than MaxSamples samples; a camera that does not open
\* makes it return False at once
RegisterFromCamera(name, opened) ==
    /\ constructed \in {"ok", "warned"}
    /\ save.pc = "idle"
    /\ registration.pc = "idle"
    /\ TotalSamples(database) < MaxSamples
    /\ registration' =
          IF opened THEN Begin("register_from_camera", name)
          ELSE [Begin("register_from_camera", name) EXCEPT !.pc = "idle"]
    /\ UNCHANGED storeVars
    /\ UNCHANGED <<matcherVars, trackerVars, iouA, iouB, iouOut>>

\* scripts/register_face.py:130-134 and 170-172  the list after a frame: the
\* automatic capture first, then the capture by the key
Captured(encodings, frame) ==
    encodings
    \o (IF AutoCaptured(frame) THEN <<frame.encoding>> ELSE <<>>)
    \o (IF ForceCaptured(frame) THEN <<frame.encoding>> ELSE <<>>)

\* the quality of what Captured adds
CapturedPassed(passed, frame) ==
    passed
    \o (IF AutoCaptured(frame) THEN <<frame.quality_ok>> ELSE <<>>)
    \o (IF ForceCaptured(frame) THEN <<frame.quality_ok>> ELSE <<>>)

\* scripts/register_face.py:101-172  one turn of the capture loop on a frame
\* the camera delivered; the key 'q' returns False from within the loop
CameraFrame(frame) ==
    /\ registration.pc = "register_from_camera"
    /\ ~EnoughSamples(registration.encodings)
    /\ registration.seen < MaxImages
    /\ registration' =
          IF frame.key = "q"
             THEN [registration EXCEPT
                      !.encodings = Captured(@, frame),
                      !.passed = CapturedPassed(@, frame),
                      !.seen = @ + 1, !.pc = "idle", !.value = FALSE]
             ELSE [registration EXCEPT
                      !.encodings = Captured(@, frame),
                      !.passed = CapturedPassed(@, frame),
                      !.seen = @ + 1]
    /\ UNCHANGED storeVars
    /\ UNCHANGED <<matcherVars, trackerVars, iouA, iouB, iouOut>>

\* scripts/register_face.py:101-104 and 174-188  the capture loop ends, by
\* its condition or by a frame the camera fails to deliver
FinishCamera(ret_ok) ==
    /\ registration.pc = "register_from_camera"
    /\ EnoughSamples(registration.encodings) \/ ~ret_ok
    /\ Finish
    /\ UNCHANGED <<matcherVars, trackerVars, iouA, iouB, iouOut>>

\* registrations from images and from the camera on a store that finds no
\* gallery file, every save succeeding and writing its pickle at once
NextRegister ==
    \/ registration.pc = "idle" /\ Construct
    \/ /\ registration.pc = "idle"
       /\ \E sample \in FaultSamples : AddPerson(sample[1], sample[2])
    \/ \E name \in Names : RegisterFromImages(name)
    \/ \E image \in Images : ProcessImage(image)
    \/ FinishImages
    \/ \E name \in Names, opened \in BOOLEAN : RegisterFromCamera(name, opened)
    \/ \E frame \in Frames : CameraFrame(frame)
    \/ \E ret_ok \in BOOLEAN : FinishCamera(ret_ok)
    \/ SaveOpen(TRUE)
    \/ \E k \in {Len(Dump(database)) - Len(file.bytes)} : SaveWrite(k)
    \/ SaveMetadata("ok")
    \/ SaveBackup("ok")

SpecRegister == InitSaves /\ [][NextRegister]_vars

\* the samples the gallery holds for a name, none for a name it does not hold
C30_Samples(db, name) ==
    IF IndexOfName(db, name) = 0 THEN <<>>
    ELSE db[IndexOfName(db, name)].encodings

\* the names of the gallery in the order of its items
C30_Order(db) == [i \in DOMAIN db |-> db[i].name]

\* a call of register_from_images or register_from_camera returns
C30_Returns == registration' # registration /\ registration'.pc = "idle"

\* C30: registration is all or nothing.  A call that returns False leaves
\* the gallery in memory and the gallery file as they were when it was
\* called and starts no save; a call that returns True has appended every
\* collected sample to its person, in the order of collection, leaving the
\* other persons alone, and then calls save_database once, which starts on
\* the gallery that holds them all.
C30_AllOrNothing ==
    [][C30_Returns =>
          /\ database = registration'.before.database
          /\ file = registration'.before.file
          /\ file' = file
          /\ IF registration'.value
                THEN /\ C30_Samples(database', registration'.name) =
                           C30_Samples(database, registration'.name)
                           \o registration'.encodings
                     /\ \A name \in Names \ {registration'.name} :
                           C30_Samples(database', name) =
                              C30_Samples(database, name)
                     /\ C30_Order(database') =
                           IF IndexOfName(database, registration'.name) = 0
                              THEN Append(C30_Order(database),
                                          registration'.name)
                              ELSE C30_Order(database)
                     /\ save.pc = "idle"
                     /\ save'.pc = "open" /\ save'.op = "save_database"
                ELSE database' = database /\ save' = save]_vars

\* C30: a registration from the camera of Alice, who had a sample in the
\* gallery, has returned True with two different vectors among those it
\* collected, and its save has run to its end
C30_Witness ==
    /\ registration.op = "register_from_camera"
    /\ registration.pc = "idle"
    /\ registration.value
    /\ registration.name = "Alice"
    /\ registration.before.database # <<>>
    /\ \E j, k \in DOMAIN registration.encodings :
          j < k /\ registration.encodings[j] # registration.encodings[k]
    /\ C30_Samples(database, "Alice") =
          C30_Samples(registration.before.database, "Alice")
          \o registration.encodings
    /\ save.pc = "idle"
    /\ ret.op = "save_database"

\* C21: registration commits only on enough samples that passed the quality
\* check.  After a call that returned True the collected samples are at
\* least min_samples and each of them came from a picture whose quality
\* reached quality_threshold, so that no sample below the threshold is
\* counted or committed.
C21_OnlyQualitySamplesCommitted ==
    (registration.pc = "idle" /\ registration.value) =>
       /\ Len(registration.encodings) >= min_samples
       /\ \A k \in DOMAIN registration.passed : registration.passed[k]

\* C21, for the images alone: a call of register_from_images that returned
\* True collected at least min_samples samples, all of them of passing
\* quality
C21_ImagesCommitOnlyQuality ==
    (/\ registration.op = "register_from_images"
     /\ registration.pc = "idle"
     /\ registration.value) =>
       /\ Len(registration.encodings) >= min_samples
       /\ \A k \in DOMAIN registration.passed : registration.passed[k]

\* C21: a call has returned True and the gallery holds a sample that was
\* forced in by the key 'c' from a frame below the quality threshold
C21_ForcedLowQualityCommitted ==
    /\ registration.pc = "idle" /\ registration.value
    /\ \E k \in DOMAIN registration.passed :
          /\ ~registration.passed[k]
          /\ \E i \in DOMAIN C30_Samples(database, registration.name) :
                C30_Samples(database, registration.name)[i] =
                   registration.encodings[k]

====
